---- MODULE Spec2Model ----
(***************************************************************************)
(* A model of @vyke/results: the Result algebra of src/src/result.ts (the  *)
(* class based module: OkImpl / ErrImpl), and the plain-object module of   *)
(* src/src/index.ts and src/src/promise.ts ({ ok, value } records with the *)
(* process-wide config.verbose flag).                                      *)
(*                                                                         *)
(* JavaScript values are tagged records; objects live in a heap and are    *)
(* named by their index, so that "the same reference" is the same index.   *)
(***************************************************************************)
EXTENDS Integers, Sequences, FiniteSets, TLC

VARIABLES
    heap,      \* the objects allocated so far, by reference
    last,      \* the call the caller made last, with its completion
    invoked,   \* the argument lists the callback received during that call
    steps,     \* the into steps made on each MapHelper, in order
    promises,  \* the promises created so far, with the async call behind each
    verbose,   \* config.verbose
    console    \* what console.error was given, in order

vars == <<heap, last, invoked, steps, promises, verbose, console>>

async == <<promises, verbose, console>>

(***************************************************************************)
(* Bounds of the model.                                                    *)
(***************************************************************************)
MaxHeap == 4
MaxSteps == 3
MaxPromises == 3
MaxMade == 3

(***************************************************************************)
(* JavaScript values.                                                      *)
(***************************************************************************)
Undefined == [t |-> "undefined", n |-> 0, s |-> ""]
Num(k) == [t |-> "number", n |-> k, s |-> ""]
Str(x) == [t |-> "string", n |-> 0, s |-> x]
Bool(b) == [t |-> "boolean", n |-> IF b THEN 1 ELSE 0, s |-> ""]
Ref(i) == [t |-> "object", n |-> i, s |-> ""]
PRef(i) == [t |-> "promise", n |-> i, s |-> ""]

IsRef(v) == v.t = "object"

\* An object with no own property set: reading a missing property is undefined.
Blank(cls) ==
    [cls |-> cls, value |-> Undefined, error |-> Undefined,
     message |-> Undefined, origin |-> Undefined, ok |-> Undefined,
     result |-> Undefined]

Deref(h, v) == h[v.n]

\* The prototype chain of each class: ErrImpl extends Error.
ClassChain(cls) ==
    CASE cls = "ErrImpl" -> {"ErrImpl", "Error", "Object"}
      [] cls = "Error" -> {"Error", "Object"}
      [] OTHER -> {cls, "Object"}

InstanceOf(h, v, cls) == IsRef(v) /\ cls \in ClassChain(Deref(h, v).cls)

Digits == <<"0", "1", "2", "3", "4", "5", "6", "7", "8", "9">>

RECURSIVE NumStr(_)
NumStr(k) ==
    IF k < 0 THEN "-" \o NumStr(0 - k)
    ELSE IF k < 10 THEN Digits[k + 1]
    ELSE NumStr(k \div 10) \o Digits[(k % 10) + 1]

\* String(v) of JavaScript.
ToStr(h, v) ==
    CASE v.t = "undefined" -> "undefined"
      [] v.t = "number" -> NumStr(v.n)
      [] v.t = "string" -> v.s
      [] v.t = "boolean" -> IF v.n = 1 THEN "true" ELSE "false"
      [] OTHER ->
            IF InstanceOf(h, v, "Error")
            THEN IF Deref(h, v).message.s = "" THEN "Error"
                 ELSE "Error: " \o Deref(h, v).message.s
            ELSE "[object Object]"

\* if (v) ... of JavaScript
Truthy(v) ==
    CASE v.t = "undefined" -> FALSE
      [] v.t = "string" -> v.s # ""
      [] v.t = "number" -> v.n # 0
      [] v.t = "boolean" -> v.n = 1
      [] OTHER -> TRUE

\* a ?? b
Nullish(a, b) == IF a.t = "undefined" THEN b ELSE a

(***************************************************************************)
(* Completions: how a call ended (returned or threw, and what), the heap   *)
(* it left, the argument lists the callback received, and how the callback *)
(* itself completed.                                                       *)
(***************************************************************************)
NoCb == [kind |-> "none", val |-> Undefined]

Return(h, v) ==
    [kind |-> "return", val |-> v, heap |-> h, calls |-> <<>>, cb |-> NoCb]
Throw(h, v) ==
    [kind |-> "throw", val |-> v, heap |-> h, calls |-> <<>>, cb |-> NoCb]

Alloc(h, obj) == Return(Append(h, obj), Ref(Len(h) + 1))

\* new Error(message)
NewError(h, message) == Alloc(h, [Blank("Error") EXCEPT !.message = Str(message)])

(***************************************************************************)
(* src/src/result.ts: the class based Result.                              *)
(***************************************************************************)
OkImpl(value) == [Blank("OkImpl") EXCEPT !.value = value]

\* A mutant of ErrImpl: the message always taken from String(error).
ErrImplStringifies(h, error, message) ==
    [Blank("ErrImpl") EXCEPT
        !.error = error,
        !.message = Nullish(message, Str(ToStr(h, error))),
        !.origin = IF InstanceOf(h, error, "Error") THEN error ELSE Undefined]

ErrImpl(h, error, message) ==
    IF InstanceOf(h, error, "Error")
    THEN [Blank("ErrImpl") EXCEPT
            !.error = error,
            !.message = Nullish(message, Deref(h, error).message),
            !.origin = error]
    ELSE [Blank("ErrImpl") EXCEPT
            !.error = error,
            !.message = Nullish(message, Str(ToStr(h, error)))]

Ok(h, value) == Alloc(h, OkImpl(value))

Err(h, error, message) == Alloc(h, ErrImpl(h, error, message))

\* A mutant of isOk: the discriminant read off the presence of a value.
isOkByValue(h, result) == IsRef(result) /\ Deref(h, result).value # Undefined

isOk(h, result) == InstanceOf(h, result, "OkImpl")

isErr(h, result) == InstanceOf(h, result, "ErrImpl")

\* A mutant of unwrap: the Err check left out.
unwrapNoCheck(h, result) == Return(h, Deref(h, result).value)

unwrap(h, result) ==
    IF isErr(h, result)
    THEN Throw(h, result)
    ELSE Return(h, Deref(h, result).value)

\* A mutant of flatten: an Ok found inside an Ok is taken off as well.
flattenTwice(h, result) ==
    IF InstanceOf(h, result, "OkImpl")
    THEN IF InstanceOf(h, Deref(h, result).value, "OkImpl")
         THEN Return(h, Deref(h, Deref(h, result).value).value)
         ELSE Return(h, Deref(h, result).value)
    ELSE Return(h, Deref(h, result).error)

flatten(h, result) ==
    IF InstanceOf(h, result, "OkImpl")
    THEN Return(h, Deref(h, result).value)
    ELSE Return(h, Deref(h, result).error)

\* A mutant of unwrapOr: the default taken whenever the value is undefined.
unwrapOrNullish(h, result, defaultValue) ==
    Return(h, Nullish(Deref(h, result).value, defaultValue))

unwrapOr(h, result, defaultValue) ==
    IF isOk(h, result)
    THEN Return(h, Deref(h, result).value)
    ELSE Return(h, defaultValue)

(***************************************************************************)
(* The callbacks a caller passes: each is a small function over the heap.  *)
(***************************************************************************)
Mappers == {"okSame", "okInc", "errBad", "throwRaw"}

\* The value the raising callbacks throw, and the payload of errBad's Err.
Raised == Str("raised")
Bad == Str("bad")

\* fn(value), for a Mapper fn: its completion, recorded as the callback's.
ApplyMapper(fn, h, value) ==
    LET c == CASE fn = "okSame" -> Ok(h, value)
               [] fn = "okInc" -> Ok(h, Num(value.n + 1))
               [] fn = "errBad" -> Err(h, Bad, Undefined)
               [] OTHER -> Throw(h, Raised)
    IN  [c EXCEPT !.calls = <<(<<value>>)>>,
                  !.cb = [kind |-> c.kind, val |-> c.val]]

\* A mutant of mapInto: the callback applied whatever the result is.
mapIntoAlways(h, result, fn) == ApplyMapper(fn, h, Deref(h, result).value)

mapInto(h, result, fn) ==
    IF isOk(h, result)
    THEN ApplyMapper(fn, h, Deref(h, result).value)
    ELSE Return(h, result)

\* A mutant of andThen: the function is applied a second time to the value
\* of the Ok it returned.
andThenTwice(h, result, fn) ==
    IF isOk(h, result)
    THEN LET c == ApplyMapper(fn, h, Deref(h, result).value)
         IN  IF c.kind = "return" /\ isOk(c.heap, c.val) /\ fn = "okInc"
             THEN LET d == ApplyMapper(fn, c.heap, Deref(c.heap, c.val).value)
                  IN  [d EXCEPT !.calls = c.calls \o d.calls]
             ELSE c
    ELSE Return(h, result)

\* A mutant of andThen: an Err input is rebuilt instead of passed through.
andThenCopiesErr(h, result, fn) ==
    IF isOk(h, result)
    THEN ApplyMapper(fn, h, Deref(h, result).value)
    ELSE Err(h, Deref(h, result).error, Undefined)

andThen(h, result, fn) ==
    IF isOk(h, result)
    THEN ApplyMapper(fn, h, Deref(h, result).value)
    ELSE Return(h, result)

\* The functions of no argument a caller passes to capture, each closing over
\* one value x: () => x, () => { throw x }, () => unwrap(x) for a Result x,
\* and () => unwrap(Err(x)).
Thunks == {"ret", "throw", "unwrap", "unwrapErr"}

\* fn(), for a thunk fn closing over x
ApplyThunk(fn, x, h) ==
    LET c == CASE fn = "ret" -> Return(h, x)
               [] fn = "throw" -> Throw(h, x)
               [] fn = "unwrap" -> unwrap(h, x)
               [] OTHER -> LET e == Err(h, x, Undefined) IN unwrap(e.heap, e.val)
    IN  [c EXCEPT !.calls = <<(<<>>)>>,
                  !.cb = [kind |-> c.kind, val |-> c.val]]

\* A mutant of capture: every raised value wrapped in a new Err.
captureAlwaysWraps(h, fn, x) ==
    LET c == ApplyThunk(fn, x, h)
    IN  IF c.kind = "return"
        THEN [Ok(c.heap, c.val) EXCEPT !.calls = c.calls, !.cb = c.cb]
        ELSE [Err(c.heap, c.val, Undefined) EXCEPT !.calls = c.calls, !.cb = c.cb]

\* A mutant of capture: only Result errors caught, anything else rethrown.
captureRethrows(h, fn, x) ==
    LET c == ApplyThunk(fn, x, h)
    IN  IF c.kind = "return"
        THEN [Ok(c.heap, c.val) EXCEPT !.calls = c.calls, !.cb = c.cb]
        ELSE IF InstanceOf(c.heap, c.val, "ErrImpl")
        THEN [Return(c.heap, c.val) EXCEPT !.calls = c.calls, !.cb = c.cb]
        ELSE c

\* capture(fn), for the thunk fn closing over x
capture(h, fn, x) ==
    LET c == ApplyThunk(fn, x, h)
    IN  IF c.kind = "return"
        THEN [Ok(c.heap, c.val) EXCEPT !.calls = c.calls, !.cb = c.cb]
        ELSE IF InstanceOf(c.heap, c.val, "ErrImpl")
        THEN [Return(c.heap, c.val) EXCEPT !.calls = c.calls, !.cb = c.cb]
        ELSE [Err(c.heap, c.val, Undefined) EXCEPT !.calls = c.calls, !.cb = c.cb]

\* new MapHelper(result)
map(h, result) == Alloc(h, [Blank("MapHelper") EXCEPT !.result = result])

\* A mutant of applyTo: the mapped result is dropped.
applyToDrops(h, this, result) == Return(h, this)

\* MapHelper.applyTo: stores the result in the receiver and returns the receiver.
applyTo(h, this, result) == Return([h EXCEPT ![this.n].result = result], this)

\* MapHelper.into: a raise of mapInto leaves before applyTo runs.
into(h, this, fn) ==
    LET mappedResult == mapInto(h, Deref(h, this).result, fn)
    IN  IF mappedResult.kind = "throw"
        THEN mappedResult
        ELSE [applyTo(mappedResult.heap, this, mappedResult.val) EXCEPT
                !.calls = mappedResult.calls, !.cb = mappedResult.cb]

\* MapHelper.get
get(h, this) == Return(h, Deref(h, this).result)

(***************************************************************************)
(* src/src/index.ts: the plain-object Result, { ok, value }.               *)
(***************************************************************************)
OkPlain(h, value) ==
    Alloc(h, [Blank("Object") EXCEPT !.value = value, !.ok = Bool(TRUE)])

ErrPlain(h, error) ==
    Alloc(h, [Blank("Object") EXCEPT !.value = error, !.ok = Bool(FALSE)])

(***************************************************************************)
(* The async bridge. An async function runs up to its await when called    *)
(* and returns a pending promise; the part after the await runs once the   *)
(* awaited promise has settled. The operators below are that second part,  *)
(* given the settled promise p.                                            *)
(***************************************************************************)
\* What an async function has awaited from its callback: nothing yet, a
\* pending promise, or a value.
NoInner == [state |-> "none", value |-> Undefined]

\* The frame of an async function: the callback and the second argument it
\* was given, where it stands ("then": not called yet; "await": suspended
\* on its callback's result; "done"), what it awaits there, and the
\* argument lists its callback has received.
NoTask ==
    [nextFn |-> "", arg |-> Undefined, pc |-> "none", inner |-> NoInner,
     calls |-> <<>>]

\* A promise: its state and value, the async function whose result it is
\* ("caller" for a promise of the caller's own), the promise that
\* function awaits, and that function's frame.
Promise(state, value, fn, awaits) ==
    [state |-> state, value |-> value, fn |-> fn, awaits |-> awaits,
     task |-> NoTask]

Settled(p) == p.state # "pending"

\* The promise that the async function behind promise i awaits.
Awaited(i) == promises[promises[i].awaits]

\* A mutant of to: a rejection is let through as a rejection.
toRethrows(h, p) ==
    IF p.state = "fulfilled" THEN Ok(h, p.value) ELSE Throw(h, p.value)

\* to of src/src/result.ts
to(h, p) ==
    IF p.state = "fulfilled"
    THEN Ok(h, p.value)
    ELSE IF InstanceOf(h, p.value, "ErrImpl")
         THEN Return(h, p.value)
         ELSE Err(h, p.value, Undefined)

\* A mutant of that to: the rejection caught only when config.verbose is set.
toPlainQuiet(h, p) ==
    IF p.state = "fulfilled"
    THEN OkPlain(h, p.value)
    ELSE IF verbose THEN ErrPlain(h, p.value) ELSE Throw(h, p.value)

\* to of src/src/promise.ts and src/src/index.ts
toPlain(h, p) ==
    IF p.state = "fulfilled"
    THEN OkPlain(h, p.value)
    ELSE ErrPlain(h, p.value)

\* What that to hands to console.error.
toPlainLogs(p, v) ==
    IF p.state = "rejected" /\ v THEN <<p.value>> ELSE <<>>

\* The promise of an async function once its body completed as c.
Complete(pr, c) ==
    [pr EXCEPT !.state = IF c.kind = "return" THEN "fulfilled" ELSE "rejected",
               !.value = c.val]

(***************************************************************************)
(* The unwrap family. The synchronous members first, then the async ones,  *)
(* each given the settled promise p it awaited.                            *)
(***************************************************************************)
\* A mutant of expectOk: the message written into the Err it was given.
expectOkInPlace(h, result, message) ==
    IF isOk(h, result)
    THEN Return(h, Deref(h, result).value)
    ELSE Throw([h EXCEPT ![result.n].message = message], result)

\* A mutant of expectOk: the message is left to be derived from the payload.
expectOkDerives(h, result, message) ==
    IF isOk(h, result)
    THEN Return(h, Deref(h, result).value)
    ELSE LET e == Err(h, Deref(h, result).error, Undefined)
         IN  Throw(e.heap, e.val)

\* expectOk of src/src/result.ts
expectOk(h, result, message) ==
    IF isOk(h, result)
    THEN Return(h, Deref(h, result).value)
    ELSE LET e == Err(h, Deref(h, result).error, message)
         IN  Throw(e.heap, e.val)

\* unwrap of src/src/index.ts
unwrapPlain(h, result) ==
    IF Truthy(Deref(h, result).ok)
    THEN Return(h, Deref(h, result).value)
    ELSE Throw(h, Deref(h, result).value)

\* expect of src/src/index.ts
expectPlain(h, result, message) ==
    IF Truthy(Deref(h, result).ok)
    THEN Return(h, Deref(h, result).value)
    ELSE IF message.t = "string"
         THEN LET e == NewError(h, message.s) IN Throw(e.heap, e.val)
         ELSE Throw(h, message)

\* A mutant of toUnwrap: what was caught is always wrapped in a new Err.
toUnwrapWraps(h, p) ==
    LET c == IF p.state = "fulfilled" THEN unwrap(h, p.value)
             ELSE Throw(h, p.value)
    IN  IF c.kind = "return" THEN c
        ELSE LET e == Err(c.heap, c.val, Undefined) IN Throw(e.heap, e.val)

\* toUnwrap of src/src/result.ts
toUnwrap(h, p) ==
    LET c == IF p.state = "fulfilled" THEN unwrap(h, p.value)
             ELSE Throw(h, p.value)
    IN  IF c.kind = "return" THEN c
        ELSE IF InstanceOf(c.heap, c.val, "ErrImpl") THEN c
        ELSE LET e == Err(c.heap, c.val, Undefined) IN Throw(e.heap, e.val)

\* A mutant of toUnwrapOr: a rejection is let through.
toUnwrapOrRethrows(h, p, defaultValue) ==
    IF p.state = "fulfilled"
    THEN unwrapOr(h, p.value, defaultValue)
    ELSE Throw(h, p.value)

\* toUnwrapOr of src/src/result.ts
toUnwrapOr(h, p, defaultValue) ==
    IF p.state = "fulfilled"
    THEN unwrapOr(h, p.value, defaultValue)
    ELSE Return(h, defaultValue)

\* toExpectOk of src/src/result.ts
toExpectOk(h, p, message) ==
    LET c == IF p.state = "fulfilled" THEN expectOk(h, p.value, message)
             ELSE Throw(h, p.value)
    IN  IF c.kind = "return" THEN c
        ELSE LET e == IF InstanceOf(c.heap, c.val, "ErrImpl")
                      THEN Err(c.heap, Deref(c.heap, c.val).error, message)
                      ELSE Err(c.heap, c.val, message)
             IN  Throw(e.heap, e.val)

\* toUnwrap of src/src/promise.ts and src/src/index.ts
toUnwrapPlain(h, p) ==
    LET data == toPlain(h, p) IN unwrapPlain(data.heap, data.val)

\* toExpect of src/src/promise.ts and src/src/index.ts
toExpectPlain(h, p, message) ==
    LET result == toPlain(h, p) IN expectPlain(result.heap, result.val, message)

\* An Err of the Result module that src/src/promise.ts imports: an
\* instance of ResultError holding the error value.
ResultError(h, error) ==
    Alloc(h, [Blank("ResultError") EXCEPT !.value = error, !.ok = Bool(FALSE)])

\* A mutant of toCapture: every rejection wrapped in a new Err.
toCaptureWraps(h, p) ==
    IF p.state = "fulfilled" THEN Return(h, p.value)
    ELSE ResultError(h, p.value)

\* toCapture of src/src/promise.ts
toCapture(h, p) ==
    IF p.state = "fulfilled"
    THEN Return(h, p.value)
    ELSE IF InstanceOf(h, p.value, "ResultError")
         THEN Return(h, p.value)
         ELSE ResultError(h, p.value)

(***************************************************************************)
(* next: the handle it returns is an async function given to then. Its     *)
(* first part runs when the promise before it has fulfilled, up to the     *)
(* await of nextFn's result; its second part runs once that result is      *)
(* there.                                                                  *)
(***************************************************************************)
\* The functions given to next: two that return a Result and two that
\* return a promise of one.
NextFns == {"okInc", "errBad", "asyncOk", "asyncErr"}
AsyncFns == {"asyncOk", "asyncErr"}

\* The nextFns that raise: one throws when called, one returns a promise that
\* rejects.
RaisingFns == {"throwRaw", "asyncReject"}

\* The Result a nextFn produces, at once or when its promise resolves.
Produces(nextFn) ==
    IF nextFn \in {"okInc", "asyncOk"} THEN "okInc"
    ELSE IF nextFn \in RaisingFns THEN "throwRaw" ELSE "errBad"

\* fn(value) for the plain-object module.
ApplyMapperPlain(fn, h, value) ==
    IF fn = "okInc" THEN OkPlain(h, Num(value.n + 1)) ELSE ErrPlain(h, Bad)

\* nextFn(value), of the module of handle: the heap it leaves and what the
\* handle then awaits.
CallNextFn(handle, nextFn, h, value) ==
    IF nextFn \in AsyncFns \cup {"asyncReject"}
    THEN [heap |-> h, inner |-> [state |-> "pending", value |-> Undefined]]
    ELSE LET c == IF handle = "next"
                  THEN ApplyMapper(nextFn, h, value)
                  ELSE ApplyMapperPlain(nextFn, h, value)
         IN  [heap |-> c.heap,
              inner |-> [state |-> IF c.kind = "throw" THEN "rejected"
                                   ELSE "fulfilled",
                         value |-> c.val]]

\* Where a handle stands after its first part.
Begun(h, pc, inner, calls, state, value) ==
    [heap |-> h, pc |-> pc, inner |-> inner, calls |-> calls,
     state |-> state, value |-> value]

\* A mutant of next: nextFn is started and not waited for.
nextDetached(h, nextFn, result) ==
    IF isOk(h, result)
    THEN LET r == CallNextFn("next", nextFn, h, Deref(h, result).value)
         IN  Begun(r.heap, "await", r.inner, <<(<<Deref(h, result).value>>)>>,
                   "fulfilled", result)
    ELSE Begun(h, "done", NoInner, <<>>, "fulfilled", result)

\* A mutant of next: nextFn is called whatever the result is.
nextAlways(h, nextFn, result) ==
    LET r == CallNextFn("next", nextFn, h, Num(0))
    IN  Begun(r.heap, "await", r.inner, <<(<<Num(0)>>)>>, "pending", Undefined)

\* A mutant of next: a nextFn that throws gives an Err of what it threw.
nextCaptures(h, nextFn, result) ==
    IF isOk(h, result)
    THEN LET r == CallNextFn("next", nextFn, h, Deref(h, result).value)
         IN  IF r.inner.state = "rejected"
             THEN LET e == Err(r.heap, r.inner.value, Undefined)
                  IN  Begun(e.heap, "done", r.inner,
                            <<(<<Deref(h, result).value>>)>>, "fulfilled", e.val)
             ELSE Begun(r.heap, "await", r.inner,
                        <<(<<Deref(h, result).value>>)>>, "pending", Undefined)
    ELSE Begun(h, "done", NoInner, <<>>, "fulfilled", result)

\* next of src/src/result.ts, the handle up to its await; a nextFn that throws
\* when called ends the handle there, its promise rejected with what was thrown.
next(h, nextFn, result) ==
    IF isOk(h, result)
    THEN LET r == CallNextFn("next", nextFn, h, Deref(h, result).value)
         IN  IF r.inner.state = "rejected"
             THEN Begun(r.heap, "done", r.inner,
                        <<(<<Deref(h, result).value>>)>>, "rejected",
                        r.inner.value)
             ELSE Begun(r.heap, "await", r.inner,
                        <<(<<Deref(h, result).value>>)>>, "pending", Undefined)
    ELSE Begun(h, "done", NoInner, <<>>, "fulfilled", result)

\* A mutant of nextResume: the message is ignored.
nextResumeKeeps(h, nextResult, message) == Return(h, nextResult)

\* A mutant of nextResume: any message that was given replaces the Err, the
\* empty string too.
nextResumeGiven(h, nextResult, message) ==
    IF isErr(h, nextResult) /\ message # Undefined
    THEN LET e == NewError(h, message.s)
         IN  Err(e.heap, e.val, Undefined)
    ELSE Return(h, nextResult)

\* next of src/src/result.ts, the handle after its await
nextResume(h, nextResult, message) ==
    IF isErr(h, nextResult) /\ Truthy(message)
    THEN LET e == NewError(h, message.s)
         IN  Err(e.heap, e.val, Undefined)
    ELSE Return(h, nextResult)

\* next of src/src/promise.ts, the handle up to its await
nextPlain(h, nextFn, result) ==
    IF Truthy(Deref(h, result).ok)
    THEN LET r == CallNextFn("nextPlain", nextFn, h, Deref(h, result).value)
         IN  Begun(r.heap, "await", r.inner, <<(<<Deref(h, result).value>>)>>,
                   "pending", Undefined)
    ELSE Begun(h, "done", NoInner, <<>>, "fulfilled", result)

\* next of src/src/promise.ts, the handle after its await
nextPlainResume(h, nextResult, message) ==
    IF ~Truthy(Deref(h, nextResult).ok) /\ Truthy(message)
    THEN LET e == NewError(h, message.s)
         IN  ErrPlain(e.heap, e.val)
    ELSE Return(h, nextResult)

\* What that handle gives to console.error.
nextPlainLogs(h, nextResult, message, v) ==
    IF ~Truthy(Deref(h, nextResult).ok) /\ Truthy(message) /\ v
    THEN <<Deref(h, nextResult).value>>
    ELSE <<>>

(***************************************************************************)
(* src/unnamed/part_007: the Option module.                                *)
(***************************************************************************)
SomeImpl(value) == [Blank("SomeImpl") EXCEPT !.value = value]

NoneImpl == Blank("NoneImpl")

Some(h, value) == Alloc(h, SomeImpl(value))

\* const none = new NoneImpl(): the first object the module allocates.
none == Ref(1)

\* A mutant of None: a new NoneImpl on every call.
NoneFresh(h) == Alloc(h, NoneImpl)

None(h) == Return(h, none)

\* A mutant of isSome: the discriminant read off the presence of a value.
isSomeByValue(h, option) == IsRef(option) /\ Deref(h, option).value # Undefined

isSome(h, option) == InstanceOf(h, option, "SomeImpl")

isNone(h, option) == InstanceOf(h, option, "NoneImpl")

\* A mutant of unwrap of an Option: undefined returned for a None.
unwrapOptionLenient(h, option) == Return(h, Deref(h, option).value)

\* unwrap of the Option module
unwrapOption(h, option) ==
    IF isSome(h, option)
    THEN Return(h, Deref(h, option).value)
    ELSE LET e == Err(h, Str("Tried to unwrap a None option"), Undefined)
         IN  Throw(e.heap, e.val)

\* unwrapOr of the Option module
unwrapOrOption(h, option, defaultValue) ==
    IF isSome(h, option)
    THEN Return(h, Deref(h, option).value)
    ELSE Return(h, defaultValue)

(***************************************************************************)
(* The caller: it holds references into the heap and makes one call at a   *)
(* time.                                                                   *)
(***************************************************************************)
Refs(h) == {Ref(i) : i \in 1..Len(h)}
Prims == {Undefined, Num(1)}
ErrPrims == {Undefined, Str("x")}
Defaults == {Undefined, Num(7)}

\* The references the caller holds: what it passed to, and got from, its last call.
Held(l) == {v \in {l.arg, l.arg2, l.val} : IsRef(v)}
HeldResults(h, l) == {r \in Held(l) : isOk(h, r) \/ isErr(h, r)}

HeldHelpers(h, l) == {m \in Held(l) : InstanceOf(h, m, "MapHelper")}

NoCall ==
    [op |-> "none", arg |-> Undefined, arg2 |-> Undefined, fn |-> "",
     kind |-> "none", val |-> Undefined, cb |-> NoCb]

Call(op, arg, arg2, fn, c) ==
    [op |-> op, arg |-> arg, arg2 |-> arg2, fn |-> fn,
     kind |-> c.kind, val |-> c.val, cb |-> c.cb]

\* The state after a call that completed as c.
Done(op, arg, arg2, fn, c) ==
    /\ Len(c.heap) <= MaxHeap
    /\ heap' = c.heap
    /\ last' = Call(op, arg, arg2, fn, c)
    /\ invoked' = c.calls

\* The mappers that type-check against a success value.
MappersFor(h, result) ==
    IF isOk(h, result) /\ Deref(h, result).value.t # "number"
    THEN Mappers \ {"okInc"}
    ELSE Mappers

Init ==
    /\ heap = <<>>
    /\ last = NoCall
    /\ invoked = <<>>
    /\ steps = <<>>
    /\ promises = <<>>
    /\ verbose = FALSE
    /\ console = <<>>

DoNewError ==
    /\ \E m \in {"boom"} : Done("Error", Str(m), Undefined, "", NewError(heap, m))
    /\ UNCHANGED <<steps, async>>

DoOk ==
    /\ \E v \in Prims \cup Held(last) : Done("Ok", v, Undefined, "", Ok(heap, v))
    /\ UNCHANGED <<steps, async>>

DoErr ==
    /\ \E e \in ErrPrims \cup Held(last) :
            Done("Err", e, Undefined, "", Err(heap, e, Undefined))
    /\ UNCHANGED <<steps, async>>

DoUnwrap ==
    /\ \E r \in HeldResults(heap, last) :
            Done("unwrap", r, Undefined, "", unwrap(heap, r))
    /\ UNCHANGED <<steps, async>>

DoUnwrapOr ==
    /\ \E r \in HeldResults(heap, last), d \in Defaults :
            Done("unwrapOr", r, d, "", unwrapOr(heap, r, d))
    /\ UNCHANGED <<steps, async>>

DoMapInto ==
    /\ \E r \in HeldResults(heap, last) : \E fn \in MappersFor(heap, r) :
            Done("mapInto", r, Undefined, fn, mapInto(heap, r, fn))
    /\ UNCHANGED <<steps, async>>

DoAndThen ==
    /\ \E r \in HeldResults(heap, last) : \E fn \in MappersFor(heap, r) :
            Done("andThen", r, Undefined, fn, andThen(heap, r, fn))
    /\ UNCHANGED <<steps, async>>

(***************************************************************************)
(* The builder: map(result).into(fn)...get(). Every step on a helper is    *)
(* logged with the result the helper held before and after it.             *)
(***************************************************************************)
Step(helper, fn, before, c, h) ==
    [helper |-> helper.n, fn |-> fn, before |-> before,
     called |-> c.calls # <<>>, after |-> Deref(h, helper).result]

DoMap ==
    /\ Len(steps) < MaxSteps
    /\ \E r \in HeldResults(heap, last) :
        LET c == map(heap, r)
        IN  /\ Done("map", r, Undefined, "", c)
            /\ steps' = Append(steps, Step(c.val, "map", Undefined, c, c.heap))
    /\ UNCHANGED async

DoInto ==
    /\ Len(steps) < MaxSteps
    /\ \E m \in HeldHelpers(heap, last) :
        \E fn \in MappersFor(heap, Deref(heap, m).result) :
            LET c == into(heap, m, fn)
            IN  /\ Done("into", m, Undefined, fn, c)
                /\ steps' = Append(steps,
                        Step(m, fn, Deref(heap, m).result, c, c.heap))
    /\ UNCHANGED async

DoGet ==
    /\ \E m \in HeldHelpers(heap, last) :
            Done("get", m, Undefined, "", get(heap, m))
    /\ UNCHANGED <<steps, async>>

\* The values a thunk of each kind may close over.
ThunkArgs(fn, h, l) ==
    CASE fn = "unwrap" -> HeldResults(h, l)
      [] fn = "throw" -> {Raised} \cup Held(l)
      [] fn = "ret" -> Prims \cup Held(l)
      [] OTHER -> ErrPrims \cup Held(l)

DoCapture ==
    /\ \E fn \in Thunks : \E x \in ThunkArgs(fn, heap, last) :
            Done("capture", x, Undefined, fn, capture(heap, fn, x))
    /\ UNCHANGED <<steps, async>>

(***************************************************************************)
(* The caller and the scheduler of the async bridge.                       *)
(***************************************************************************)
\* The heaps the caller's values come from.
InputHeaps ==
    LET boom == NewError(<<>>, "boom")
    IN  { <<>>,
          boom.heap,
          Err(<<>>, Str("x"), Undefined).heap,
          Err(boom.heap, boom.val, Undefined).heap,
          ErrPlain(<<>>, Str("x")).heap }

\* What a promise may be resolved with, and rejected with.
Resolutions(h) == Prims
Reasons(h) == ErrPrims \cup Refs(h)

Outcomes(h) ==
    {<<"fulfilled", v>> : v \in Resolutions(h)}
        \cup {<<"rejected", e>> : e \in Reasons(h)}

AsyncCall(op, arg) ==
    [op |-> op, arg |-> arg, arg2 |-> Undefined, fn |-> "",
     kind |-> "return", val |-> PRef(Len(promises) + 1), cb |-> NoCb]

InitAsync ==
    /\ heap \in InputHeaps
    /\ last = NoCall
    /\ invoked = <<>>
    /\ steps = <<>>
    /\ promises = <<>>
    /\ verbose = FALSE
    /\ console = <<>>

\* The caller makes a promise: pending, or already settled as Promise.resolve
\* and Promise.reject make it.
DoNewPromise ==
    /\ Len(promises) < MaxPromises
    /\ \E o \in {<<"pending", Undefined>>} \cup Outcomes(heap) :
            promises' = Append(promises, Promise(o[1], o[2], "caller", 0))
    /\ last' = AsyncCall("Promise", Undefined)
    /\ UNCHANGED <<heap, invoked, steps, verbose, console>>

\* A pending promise of the caller settles, once.
DoSettle ==
    /\ \E i \in DOMAIN promises : \E o \in Outcomes(heap) :
        /\ promises[i].fn = "caller"
        /\ promises[i].state = "pending"
        /\ promises' = [promises EXCEPT ![i].state = o[1], ![i].value = o[2]]
    /\ UNCHANGED <<heap, last, invoked, steps, verbose, console>>

\* config.verbose = ...
DoSetVerbose ==
    /\ verbose' = ~verbose
    /\ UNCHANGED <<heap, last, invoked, steps, promises, console>>

\* to(promise) of the class based module, up to its await.
DoTo ==
    /\ Len(promises) < MaxPromises
    /\ \E i \in DOMAIN promises :
        /\ promises' = Append(promises, Promise("pending", Undefined, "to", i))
        /\ last' = AsyncCall("to", PRef(i))
    /\ UNCHANGED <<heap, invoked, steps, verbose, console>>

\* to(promise) of the plain-object module, up to its await.
DoToPlain ==
    /\ Len(promises) < MaxPromises
    /\ \E i \in DOMAIN promises :
        /\ promises' = Append(promises, Promise("pending", Undefined, "toPlain", i))
        /\ last' = AsyncCall("toPlain", PRef(i))
    /\ UNCHANGED <<heap, invoked, steps, verbose, console>>

\* The rest of to, after its await.
ResumeTo ==
    /\ \E i \in DOMAIN promises :
        /\ promises[i].fn = "to"
        /\ promises[i].state = "pending"
        /\ Settled(promises[promises[i].awaits])
        /\ LET c == to(heap, promises[promises[i].awaits])
           IN  /\ Len(c.heap) <= MaxHeap
               /\ heap' = c.heap
               /\ promises' = [promises EXCEPT ![i] = Complete(@, c)]
    /\ UNCHANGED <<last, invoked, steps, verbose, console>>

ResumeToPlain ==
    /\ \E i \in DOMAIN promises :
        /\ promises[i].fn = "toPlain"
        /\ promises[i].state = "pending"
        /\ Settled(promises[promises[i].awaits])
        /\ LET c == toPlain(heap, promises[promises[i].awaits])
           IN  /\ Len(c.heap) <= MaxHeap
               /\ heap' = c.heap
               /\ promises' = [promises EXCEPT ![i] = Complete(@, c)]
               /\ console' = console \o toPlainLogs(promises[promises[i].awaits], verbose)
    /\ UNCHANGED <<last, invoked, steps, verbose>>

(***************************************************************************)
(* Promise chains: p.then(next(f1)).then(next(f2))...                      *)
(***************************************************************************)
\* The heaps a chain starts from: one Result of either module.
ChainHeaps ==
    LET boom == NewError(<<>>, "boom")
    IN  { Ok(<<>>, Num(1)).heap,
          Err(<<>>, Str("x"), Undefined).heap,
          Err(boom.heap, boom.val, Undefined).heap,
          OkPlain(<<>>, Num(1)).heap,
          ErrPlain(<<>>, Str("x")).heap }

\* The second argument of next: left out, empty, or a text.
Messages == {Undefined, Str(""), Str("custom error")}

\* The Results in the heap, of either module.
Results(h) ==
    {r \in Refs(h) : Deref(h, r).cls \in {"OkImpl", "ErrImpl", "Object"}}

\* The handles that type-check after promise i: those of the module its
\* Result belongs to.
HandlesFor(i) ==
    IF promises[i].fn \in {"next", "nextPlain"} THEN {promises[i].fn}
    ELSE IF promises[i].state # "fulfilled" THEN {"next", "nextPlain"}
    ELSE IF Deref(heap, promises[i].value).cls = "Object" THEN {"nextPlain"}
    ELSE {"next"}

\* The caller builds its chains in one synchronous run, as a program does:
\* no handle runs before that run is over.
Building ==
    \A j \in DOMAIN promises : promises[j].task.pc \in {"none", "then"}

InitThen ==
    /\ heap \in ChainHeaps
    /\ last = NoCall
    /\ invoked = <<>>
    /\ steps = <<>>
    /\ promises = <<>>
    /\ verbose = FALSE
    /\ console = <<>>

\* Promise.resolve(result), Promise.reject(e)
DoPromiseOf ==
    /\ Building
    /\ Len(promises) < MaxPromises
    /\ \E o \in {<<"fulfilled", r>> : r \in Results(heap)}
                \cup {<<"rejected", e>> : e \in ErrPrims} :
            promises' = Append(promises, Promise(o[1], o[2], "caller", 0))
    /\ last' = AsyncCall("Promise", Undefined)
    /\ UNCHANGED <<heap, invoked, steps, verbose, console>>

\* promise.then(next(nextFn, message)), on the promise made last: a chain
\* is written as one expression.
DoThenNext ==
    /\ Building
    /\ Len(promises) < MaxPromises
    /\ \E i \in {Len(promises)} \ {0} : \E handle \in HandlesFor(i) :
       \E nextFn \in NextFns : \E message \in Messages :
        /\ promises' = Append(promises,
                [Promise("pending", Undefined, handle, i) EXCEPT
                    !.task = [NoTask EXCEPT !.nextFn = nextFn,
                                            !.arg = message,
                                            !.pc = "then"]])
        /\ last' = AsyncCall(handle, PRef(i))
    /\ UNCHANGED <<heap, invoked, steps, verbose, console>>

\* The promise before a handle has settled: a rejection goes through then
\* untouched, a Result is given to the handle, which runs up to its await.
StartNext ==
    /\ \E i \in DOMAIN promises :
        /\ promises[i].fn \in {"next", "nextPlain"}
        /\ promises[i].task.pc = "then"
        /\ Settled(promises[promises[i].awaits])
        /\ LET p == promises[promises[i].awaits]
               b == IF p.state = "rejected"
                    THEN Begun(heap, "done", NoInner, <<>>, "rejected", p.value)
                    ELSE IF promises[i].fn = "next"
                    THEN next(heap, promises[i].task.nextFn, p.value)
                    ELSE nextPlain(heap, promises[i].task.nextFn, p.value)
           IN  /\ Len(b.heap) <= MaxHeap
               /\ heap' = b.heap
               /\ promises' = [promises EXCEPT
                                ![i].state = b.state,
                                ![i].value = b.value,
                                ![i].task.pc = b.pc,
                                ![i].task.inner = b.inner,
                                ![i].task.calls = b.calls]
    /\ UNCHANGED <<last, invoked, steps, verbose, console>>

\* The promise an asynchronous nextFn returned resolves to its Result, or
\* rejects with what the nextFn raised.
SettleNextFn ==
    /\ \E i \in DOMAIN promises :
        /\ promises[i].task.pc = "await"
        /\ promises[i].task.inner.state = "pending"
        /\ LET t == promises[i].task
               c == IF promises[i].fn = "next"
                    THEN ApplyMapper(Produces(t.nextFn), heap, t.calls[1][1])
                    ELSE ApplyMapperPlain(Produces(t.nextFn), heap, t.calls[1][1])
           IN  /\ Len(c.heap) <= MaxHeap
               /\ heap' = c.heap
               /\ promises' = [promises EXCEPT
                                ![i].task.inner =
                                    [state |-> IF c.kind = "throw"
                                               THEN "rejected" ELSE "fulfilled",
                                     value |-> c.val]]
    /\ UNCHANGED <<last, invoked, steps, verbose, console>>

\* The rest of a handle, after its await.
ResumeNext ==
    /\ \E i \in DOMAIN promises :
        /\ promises[i].task.pc = "await"
        /\ promises[i].task.inner.state \in {"fulfilled", "rejected"}
        /\ LET t == promises[i].task
               c == IF t.inner.state = "rejected"
                    THEN Throw(heap, t.inner.value)
                    ELSE IF promises[i].fn = "next"
                    THEN nextResume(heap, t.inner.value, t.arg)
                    ELSE nextPlainResume(heap, t.inner.value, t.arg)
           IN  /\ Len(c.heap) <= MaxHeap
               /\ heap' = c.heap
               /\ promises' = [promises EXCEPT
                                ![i] = [Complete(@, c) EXCEPT !.task.pc = "done"]]
               /\ console' = console \o
                    (IF promises[i].fn = "next" \/ t.inner.state = "rejected"
                     THEN <<>>
                     ELSE nextPlainLogs(heap, t.inner.value, t.arg, verbose))
    /\ UNCHANGED <<last, invoked, steps, verbose>>

\* promise.then(next(nextFn, message)) with a nextFn that raises.
DoThenRaising ==
    /\ Building
    /\ Len(promises) < MaxPromises
    /\ \E i \in {Len(promises)} \ {0} :
       \E nextFn \in RaisingFns : \E message \in Messages :
        /\ promises' = Append(promises,
                [Promise("pending", Undefined, "next", i) EXCEPT
                    !.task = [NoTask EXCEPT !.nextFn = nextFn,
                                            !.arg = message,
                                            !.pc = "then"]])
        /\ last' = AsyncCall("next", PRef(i))
    /\ UNCHANGED <<heap, invoked, steps, verbose, console>>

(***************************************************************************)
(* The async unwrap family: toUnwrap, toUnwrapOr, toExpectOk of the class  *)
(* based module, toUnwrap and toExpect of the plain-object module, and     *)
(* toCapture.                                                              *)
(***************************************************************************)
\* The heaps the awaited values come from.
AwaitHeaps ==
    LET boom == NewError(<<>>, "boom")
    IN  { boom.heap,
          Ok(<<>>, Num(1)).heap,
          Err(<<>>, Str("x"), Undefined).heap,
          Err(boom.heap, boom.val, Undefined).heap,
          OkPlain(<<>>, Num(1)).heap,
          ErrPlain(<<>>, Str("x")).heap,
          ResultError(<<>>, Str("x")).heap }

UnwrapFns == {"toUnwrap", "toUnwrapOr", "toExpectOk"}
PlainFns == {"toUnwrapPlain", "toExpectPlain"}

\* The second argument each function is given.
ArgsFor(fn) ==
    CASE fn = "toUnwrapOr" -> Defaults
      [] fn \in {"toExpectOk", "toExpectPlain"} -> {Str("another error")}
      [] OTHER -> {Undefined}

\* The promises each function type-checks against: those of Results of
\* its module, or of any value for the functions that take a Promise<TValue>.
Accepts(fn, pr) ==
    \/ pr.state = "rejected"
    \/ /\ pr.state = "fulfilled"
       /\ IF fn \in UnwrapFns
          THEN IsRef(pr.value) /\ Deref(heap, pr.value).cls \in {"OkImpl", "ErrImpl"}
          ELSE IF fn = "toCapture"
          THEN IsRef(pr.value) /\ Deref(heap, pr.value).cls \in {"Object", "ResultError"}
          ELSE ~IsRef(pr.value) \/ Deref(heap, pr.value).cls = "Object"

\* The body of fn after its await of the settled promise pr.
AfterAwait(fn, h, pr, arg) ==
    CASE fn = "toUnwrap" -> toUnwrap(h, pr)
      [] fn = "toUnwrapOr" -> toUnwrapOr(h, pr, arg)
      [] fn = "toExpectOk" -> toExpectOk(h, pr, arg)
      [] fn = "toUnwrapPlain" -> toUnwrapPlain(h, pr)
      [] fn = "toExpectPlain" -> toExpectPlain(h, pr, arg)
      [] OTHER -> toCapture(h, pr)

InitAwait ==
    /\ heap \in AwaitHeaps
    /\ last = NoCall
    /\ invoked = <<>>
    /\ steps = <<>>
    /\ promises = <<>>
    /\ verbose = FALSE
    /\ console = <<>>

\* Promise.resolve(v), Promise.reject(e): v a Result or a plain value, e
\* anything.
DoSettledPromise ==
    /\ Len(promises) < MaxPromises
    /\ \E o \in {<<"fulfilled", v>> : v \in Refs(heap) \cup {Num(1)}}
                \cup {<<"rejected", e>> : e \in Refs(heap) \cup {Str("x")}} :
            promises' = Append(promises, Promise(o[1], o[2], "caller", 0))
    /\ last' = AsyncCall("Promise", Undefined)
    /\ UNCHANGED <<heap, invoked, steps, verbose, console>>

\* fn(promise) or fn(promise, arg), up to its await, on the promise made last.
CallOn(fn) ==
    /\ Len(promises) < MaxPromises
    /\ \E i \in {Len(promises)} \ {0} : \E arg \in ArgsFor(fn) :
        /\ promises[i].fn = "caller"
        /\ Accepts(fn, promises[i])
        /\ promises' = Append(promises,
                [Promise("pending", Undefined, fn, i) EXCEPT
                    !.task = [NoTask EXCEPT !.arg = arg, !.pc = "await"]])
        /\ last' = AsyncCall(fn, PRef(i))
    /\ UNCHANGED <<heap, invoked, steps, verbose, console>>

DoToUnwrap == CallOn("toUnwrap")
DoToUnwrapOr == CallOn("toUnwrapOr")
DoToExpectOk == CallOn("toExpectOk")
DoToUnwrapPlain == CallOn("toUnwrapPlain")
DoToExpectPlain == CallOn("toExpectPlain")
DoToCapture == CallOn("toCapture")

\* The rest of the function, after its await.
ResumeAwait ==
    /\ \E i \in DOMAIN promises :
        /\ promises[i].fn \in UnwrapFns \cup PlainFns \cup {"toCapture"}
        /\ promises[i].task.pc = "await"
        /\ Settled(Awaited(i))
        /\ LET c == AfterAwait(promises[i].fn, heap, Awaited(i), promises[i].task.arg)
           IN  /\ Len(c.heap) <= MaxHeap
               /\ heap' = c.heap
               /\ promises' = [promises EXCEPT
                                ![i] = [Complete(@, c) EXCEPT !.task.pc = "done"]]
               /\ console' = console \o
                    (IF promises[i].fn \in PlainFns
                     THEN toPlainLogs(Awaited(i), verbose) ELSE <<>>)
    /\ UNCHANGED <<last, invoked, steps, verbose>>

(***************************************************************************)
(* unwrapOr and toUnwrapOr called with a third argument, onError, as the   *)
(* tests of src/unnamed/part_004 call them. Both functions declare two     *)
(* parameters: the third argument is not bound to anything.                *)
(***************************************************************************)
\* unwrapOr(result, defaultValue, onError)
DoUnwrapOrOnError ==
    /\ \E r \in Refs(heap) : \E d \in Defaults :
        /\ isOk(heap, r) \/ isErr(heap, r)
        /\ Done("unwrapOr", r, d, "onError", unwrapOr(heap, r, d))
    /\ UNCHANGED <<steps, async>>

\* toUnwrapOr(promise, defaultValue, onError), up to its await
DoToUnwrapOrOnError ==
    /\ Len(promises) < MaxPromises
    /\ \E i \in {Len(promises)} \ {0} : \E d \in Defaults :
        /\ promises[i].fn = "caller"
        /\ Accepts("toUnwrapOr", promises[i])
        /\ promises' = Append(promises,
                [Promise("pending", Undefined, "toUnwrapOr", i) EXCEPT
                    !.task = [NoTask EXCEPT !.nextFn = "onError",
                                            !.arg = d,
                                            !.pc = "await"]])
        /\ last' = AsyncCall("toUnwrapOr", PRef(i))
    /\ UNCHANGED <<heap, invoked, steps, verbose, console>>

(***************************************************************************)
(* expect and expectOk, called on the Results of a small heap.             *)
(***************************************************************************)
ExpectHeaps ==
    LET boom == NewError(<<>>, "boom")
    IN  { Ok(<<>>, Num(1)).heap,
          Ok(<<>>, Undefined).heap,
          Err(<<>>, Str("x"), Undefined).heap,
          Err(boom.heap, boom.val, Undefined).heap,
          OkPlain(<<>>, Num(1)).heap,
          OkPlain(<<>>, Undefined).heap,
          ErrPlain(<<>>, Str("x")).heap,
          ErrPlain(boom.heap, boom.val).heap }

\* The messages given to expectOk, which takes a string, and to expect,
\* which takes any value: a string, a number, an error object of the caller.
StringMessages == {Str(""), Str("another error")}
AnyMessages(h) ==
    StringMessages \cup {Num(5)} \cup {e \in Refs(h) : Deref(h, e).cls = "Error"}

InitExpect ==
    /\ heap \in ExpectHeaps
    /\ last = NoCall
    /\ invoked = <<>>
    /\ steps = <<>>
    /\ promises = <<>>
    /\ verbose = FALSE
    /\ console = <<>>

DoExpectOk ==
    /\ \E r \in Refs(heap) : \E message \in StringMessages :
        /\ isOk(heap, r) \/ isErr(heap, r)
        /\ Done("expectOk", r, message, "", expectOk(heap, r, message))
    /\ UNCHANGED <<steps, async>>

DoExpect ==
    /\ \E r \in Refs(heap) : \E message \in AnyMessages(heap) :
        /\ Deref(heap, r).cls = "Object"
        /\ Done("expect", r, message, "", expectPlain(heap, r, message))
    /\ UNCHANGED <<steps, async>>

(***************************************************************************)
(* The Option module, called on the Options the caller holds.              *)
(***************************************************************************)
HeldOptions(h, l) == {o \in Held(l) : isSome(h, o) \/ isNone(h, o)}

InitOption ==
    /\ heap = <<NoneImpl>>
    /\ last = NoCall
    /\ invoked = <<>>
    /\ steps = <<>>
    /\ promises = <<>>
    /\ verbose = FALSE
    /\ console = <<>>

DoSome ==
    /\ \E v \in Prims \cup Held(last) : Done("Some", v, Undefined, "", Some(heap, v))
    /\ UNCHANGED <<steps, async>>

DoNone ==
    /\ Done("None", Undefined, Undefined, "", None(heap))
    /\ UNCHANGED <<steps, async>>

DoIsSome ==
    /\ \E o \in HeldOptions(heap, last) :
            Done("isSome", o, Undefined, "", Return(heap, Bool(isSome(heap, o))))
    /\ UNCHANGED <<steps, async>>

DoIsNone ==
    /\ \E o \in HeldOptions(heap, last) :
            Done("isNone", o, Undefined, "", Return(heap, Bool(isNone(heap, o))))
    /\ UNCHANGED <<steps, async>>

DoUnwrapOption ==
    /\ \E o \in HeldOptions(heap, last) :
            Done("unwrapOption", o, Undefined, "", unwrapOption(heap, o))
    /\ UNCHANGED <<steps, async>>

DoUnwrapOrOption ==
    /\ \E o \in HeldOptions(heap, last), d \in Defaults :
            Done("unwrapOrOption", o, d, "", unwrapOrOption(heap, o, d))
    /\ UNCHANGED <<steps, async>>

(***************************************************************************)
(* One program using the whole class based module: it builds Results,      *)
(* bridges what it has to promises, awaits what comes out and goes on with *)
(* it. Each call takes what the call before returned.                      *)
(***************************************************************************)
\* await promise, for a promise the module returned
DoAwait ==
    /\ \E i \in DOMAIN promises :
        /\ promises[i].fn \in {"to", "next"}
        /\ Settled(promises[i])
        /\ last' = Call("await", PRef(i), Undefined, "",
                IF promises[i].state = "fulfilled"
                THEN Return(heap, promises[i].value)
                ELSE Throw(heap, promises[i].value))
    /\ UNCHANGED <<heap, invoked, steps, async>>

\* The objects and promises the module and its callbacks have made.
Made(h, ps) ==
    Len(h) + Cardinality({i \in DOMAIN ps : ps[i].fn # "caller"})

\* The synchronous calls of the program.
CallSync ==
    \/ DoOk
    \/ DoErr
    \/ DoMapInto
    \/ DoAndThen
    \/ DoMap
    \/ DoInto
    \/ DoGet
    \/ DoCapture

\* The program: bounded in what it makes; a Result it hands on is the one
\* the call before returned; its step functions return Results; it uses
\* the handles of the class based module, without a message, and gives to
\* the promise it made last.
Pipeline ==
    /\ Made(heap', promises') <= MaxMade
    /\ (/\ last' # last
        /\ last'.op \notin {"await", "Promise", "to", "next"}
        /\ IsRef(last.val)) => last'.arg = last.val
    /\ (/\ Len(promises') > Len(promises)
        /\ promises'[Len(promises')].fn = "caller"
        /\ IsRef(promises'[Len(promises')].value)) =>
            promises'[Len(promises')].value = last.val
    /\ last'.fn # "throwRaw"
    /\ \A i \in DOMAIN promises' :
            /\ promises'[i].fn # "nextPlain"
            /\ promises'[i].task.arg = Undefined
            /\ promises'[i].fn = "to" => promises'[i].awaits = i - 1

(***************************************************************************)
(* mapInto, andThen and the builder, each given the Result the caller      *)
(* holds.                                                                  *)
(***************************************************************************)
EquivHeaps ==
    LET boom == NewError(<<>>, "boom")
    IN  { Ok(<<>>, Num(1)).heap,
          Ok(<<>>, Undefined).heap,
          Err(<<>>, Str("x"), Undefined).heap,
          Err(boom.heap, boom.val, Undefined).heap }

InitEquiv ==
    /\ heap \in EquivHeaps
    /\ last = [NoCall EXCEPT !.op = "given", !.kind = "return",
                             !.val = Ref(Len(heap))]
    /\ invoked = <<>>
    /\ steps = <<>>
    /\ promises = <<>>
    /\ verbose = FALSE
    /\ console = <<>>

Next ==
    \/ DoNewError
    \/ DoOk
    \/ DoErr
    \/ DoUnwrap
    \/ DoUnwrapOr
    \/ DoMapInto
    \/ DoAndThen

Spec == Init /\ [][Next]_vars

NextCapture ==
    \/ DoNewError
    \/ DoOk
    \/ DoErr
    \/ DoCapture

SpecCapture == Init /\ [][NextCapture]_vars

NextAsync ==
    \/ DoNewPromise
    \/ DoSettle
    \/ DoSetVerbose
    \/ DoTo
    \/ DoToPlain
    \/ ResumeTo
    \/ ResumeToPlain

SpecAsync == InitAsync /\ [][NextAsync]_vars

NextThen ==
    \/ DoPromiseOf
    \/ DoThenNext
    \/ DoSetVerbose
    \/ StartNext
    \/ SettleNextFn
    \/ ResumeNext

SpecThen == InitThen /\ [][NextThen]_vars

NextAwait ==
    \/ DoSettledPromise
    \/ DoToUnwrap
    \/ DoToUnwrapOr
    \/ DoToExpectOk
    \/ DoToUnwrapPlain
    \/ DoToExpectPlain
    \/ DoToCapture
    \/ ResumeAwait

SpecAwait == InitAwait /\ [][NextAwait]_vars

(***************************************************************************)
(* flatten, called on the Results the caller has nested.                   *)
(***************************************************************************)
DoFlatten ==
    /\ \E r \in HeldResults(heap, last) :
            Done("flatten", r, Undefined, "", flatten(heap, r))
    /\ UNCHANGED <<steps, async>>

NextExpect ==
    \/ DoExpectOk
    \/ DoExpect

SpecExpect == InitExpect /\ [][NextExpect]_vars

NextFlatten ==
    \/ DoOk
    \/ DoErr
    \/ DoFlatten

SpecFlatten == Init /\ [][NextFlatten]_vars

NextOption ==
    \/ DoSome
    \/ DoNone
    \/ DoIsSome
    \/ DoIsNone
    \/ DoUnwrapOption
    \/ DoUnwrapOrOption

SpecOption == InitOption /\ [][NextOption]_vars

NextResult ==
    \/ (promises = <<>> \/ last.op = "await") /\ CallSync /\ Pipeline
    \/ promises = <<>> /\ DoPromiseOf /\ Pipeline
    \/ DoTo /\ Pipeline
    \/ ResumeTo /\ Pipeline
    \/ DoThenNext /\ Pipeline
    \/ StartNext /\ Pipeline
    \/ SettleNextFn /\ Pipeline
    \/ ResumeNext /\ Pipeline
    \/ DoAwait /\ Pipeline

SpecResult == Init /\ [][NextResult]_vars

NextVerbose ==
    \/ DoPromiseOf
    \/ DoToPlain
    \/ ResumeToPlain
    \/ DoThenNext
    \/ DoSetVerbose
    \/ StartNext
    \/ SettleNextFn
    \/ ResumeNext

SpecVerbose == InitThen /\ [][NextVerbose]_vars

NextFrame ==
    \/ DoUnwrap
    \/ DoUnwrapOr
    \/ DoExpectOk
    \/ DoExpect

SpecFrame == InitExpect /\ [][NextFrame]_vars

NextEquiv ==
    \/ DoMapInto
    \/ DoAndThen

SpecEquiv == InitEquiv /\ [][NextEquiv]_vars

NextOnError ==
    \/ DoSettledPromise
    \/ DoUnwrapOrOnError
    \/ DoToUnwrapOrOnError
    \/ ResumeAwait

SpecOnError == InitAwait /\ [][NextOnError]_vars

\* The program of the combinators that take a function, whose function may
\* raise: the synchronous ones on the Result held, then one promise of a
\* Result made and a chain of next handles on it, MaxMade objects and
\* handles in all.
NextRaise ==
    \/ DoMapInto /\ Made(heap', promises') <= MaxMade
    \/ DoAndThen /\ Made(heap', promises') <= MaxMade
    \/ DoMap /\ Made(heap', promises') <= MaxMade
    \/ DoInto /\ Made(heap', promises') <= MaxMade
    \/ promises = <<>> /\ DoPromiseOf
    \/ DoThenRaising /\ Made(heap', promises') <= MaxMade
    \/ StartNext
    \/ SettleNextFn
    \/ ResumeNext

SpecRaise == InitEquiv /\ [][NextRaise]_vars

NextChain ==
    \/ DoOk
    \/ DoErr
    \/ DoMap
    \/ DoInto
    \/ DoGet

SpecChain == Init /\ [][NextChain]_vars

(***************************************************************************)
(* The claims.                                                             *)
(***************************************************************************)

C2_OkRoundTrip ==
    /\ last.op = "Ok" =>
        /\ last.kind = "return"
        /\ isOk(heap, last.val)
        /\ ~isErr(heap, last.val)
        /\ Deref(heap, last.val).value = last.arg
    /\ (last.op = "unwrap" /\ Deref(heap, last.arg).cls = "OkImpl") =>
        /\ last.kind = "return"
        /\ last.val = Deref(heap, last.arg).value

\* unwrap returned the value of an Ok whose value is undefined.
C2_Witness ==
    /\ last.op = "unwrap"
    /\ Deref(heap, last.arg).cls = "OkImpl"
    /\ Deref(heap, last.arg).value = Undefined
    /\ last.kind = "return"

\* C3: unwrapOr(Ok(v), d) returns v, unwrapOr(Err(e), d) returns d, and
\* unwrapOr never raises.
C3_UnwrapOr ==
    last.op = "unwrapOr" =>
        /\ last.kind = "return"
        /\ Deref(heap, last.arg).cls = "OkImpl" =>
                last.val = Deref(heap, last.arg).value
        /\ Deref(heap, last.arg).cls = "ErrImpl" => last.val = last.arg2

\* unwrapOr returned the default for an Err.
C3_Witness ==
    /\ last.op = "unwrapOr"
    /\ Deref(heap, last.arg).cls = "ErrImpl"
    /\ last.arg2 = Num(7)
    /\ last.val = Num(7)

\* C4: andThen on an Ok invokes fn exactly once, with the value, and returns
\* what fn returned; andThen on an Err never invokes fn, never raises and
\* returns the Err it was given, the same reference.
C4_AndThen ==
    last.op = "andThen" =>
        /\ Deref(heap, last.arg).cls = "OkImpl" =>
            /\ invoked = <<(<<Deref(heap, last.arg).value>>)>>
            /\ last.cb.kind = "return" =>
                    (last.kind = "return" /\ last.val = last.cb.val)
        /\ Deref(heap, last.arg).cls = "ErrImpl" =>
            /\ invoked = <<>>
            /\ last.kind = "return"
            /\ last.val = last.arg

\* andThen was given an Err with a callback and returned that Err.
C4_Witness ==
    /\ last.op = "andThen"
    /\ Deref(heap, last.arg).cls = "ErrImpl"
    /\ last.fn = "okSame"
    /\ last.val = last.arg

\* The steps logged for one helper, in order: its map, then its into steps.
StepsOf(helper) == SelectSeq(steps, LAMBDA e : e.helper = helper)

\* C5: in a builder chain, once the helper holds an Err (from map or from a
\* step), no later step invokes its function and every later step leaves
\* that same Err in place; get() returns an Err with that Err's payload.
C5_ChainShortCircuit ==
    /\ \A i, j \in DOMAIN steps :
        (/\ i < j
         /\ steps[i].helper = steps[j].helper
         /\ Deref(heap, steps[i].after).cls = "ErrImpl") =>
            /\ ~steps[j].called
            /\ steps[j].after = steps[i].after
    /\ last.op = "get" =>
        \A i \in DOMAIN steps :
            (/\ steps[i].helper = last.arg.n
             /\ Deref(heap, steps[i].after).cls = "ErrImpl") =>
                /\ last.kind = "return"
                /\ isErr(heap, last.val)
                /\ Deref(heap, last.val).error = Deref(heap, steps[i].after).error

\* get() after a chain whose first step returned an Err and whose second
\* step was given a function.
C5_Witness ==
    /\ last.op = "get"
    /\ LET es == StepsOf(last.arg.n)
       IN  /\ Len(es) = 3
           /\ es[2].fn = "errBad" /\ es[2].called
           /\ es[3].fn = "okSame"
    /\ Deref(heap, last.val).error = Bad

\* What a chain of Ok-returning steps makes of a value.
RECURSIVE Composed(_, _)
Composed(v, fns) ==
    IF fns = <<>> THEN v
    ELSE Composed(IF Head(fns) = "okInc" THEN Num(v.n + 1) ELSE v, Tail(fns))

\* C6: a chain of Ok-returning steps applied to Ok(v) holds, and get()
\* returns, an Ok of the steps composed in order; with identity steps x =>
\* Ok(x) that is an Ok equal to Ok(v).
C6_ChainComposes ==
    \A m \in Refs(heap) :
        LET es == StepsOf(m.n)
            fns == [k \in 1..(Len(es) - 1) |-> es[k + 1].fn]
        IN  (/\ Deref(heap, m).cls = "MapHelper"
             /\ Len(es) >= 1
             /\ es[1].fn = "map"
             /\ Deref(heap, es[1].after).cls = "OkImpl"
             /\ \A k \in DOMAIN fns : fns[k] \in {"okSame", "okInc"}) =>
                LET expected == OkImpl(Composed(Deref(heap, es[1].after).value, fns))
                IN  /\ Deref(heap, Deref(heap, m).result) = expected
                    /\ (last.op = "get" /\ last.arg = m) =>
                        (last.kind = "return" /\ Deref(heap, last.val) = expected)

\* get() after map(Ok(v)).into(x => Ok(x)).into(x => Ok(x)).
C6_Witness ==
    /\ last.op = "get"
    /\ LET es == StepsOf(last.arg.n)
       IN  /\ Len(es) = 3
           /\ es[2].fn = "okSame" /\ es[2].called
           /\ es[3].fn = "okSame" /\ es[3].called
           /\ Deref(heap, last.val) = Deref(heap, es[1].after)
           /\ last.val # es[1].after

\* get() after map(Ok(1)) with two +1 steps returned Ok(3).
C6_WitnessInc ==
    /\ last.op = "get"
    /\ LET es == StepsOf(last.arg.n)
       IN  /\ Len(es) = 3
           /\ Deref(heap, es[1].after) = OkImpl(Num(1))
           /\ es[2].fn = "okInc"
           /\ es[3].fn = "okInc"
    /\ Deref(heap, last.val) = OkImpl(Num(3))

ToCalls == {i \in DOMAIN promises : promises[i].fn \in {"to", "toPlain"}}

\* r is an Ok of the module of fn, holding v.
IsOkOf(fn, r, v) ==
    /\ IsRef(r)
    /\ IF fn = "to"
       THEN Deref(heap, r).cls = "OkImpl" /\ Deref(heap, r).value = v
       ELSE Deref(heap, r).ok = Bool(TRUE) /\ Deref(heap, r).value = v

\* r is an Err of the module of fn, whose payload is e.
IsErrOf(fn, r, e) ==
    /\ IsRef(r)
    /\ IF fn = "to"
       THEN Deref(heap, r).cls = "ErrImpl" /\ Deref(heap, r).error = e
       ELSE Deref(heap, r).ok = Bool(FALSE) /\ Deref(heap, r).value = e

\* e is already an Err of the module of fn.
AlreadyErr(fn, e) ==
    /\ IsRef(e)
    /\ IF fn = "to"
       THEN Deref(heap, e).cls = "ErrImpl"
       ELSE Deref(heap, e).cls = "Object" /\ Deref(heap, e).ok = Bool(FALSE)

C10_ToPassesErrThrough ==
    \A i \in ToCalls :
        (/\ promises[i].state = "fulfilled"
         /\ Awaited(i).state = "rejected"
         /\ AlreadyErr(promises[i].fn, Awaited(i).value))
            => promises[i].value = Awaited(i).value

\* The part of C10 that the class based module keeps.
C10_ClassBasedPassesErrThrough ==
    \A i \in ToCalls :
        (/\ promises[i].fn = "to"
         /\ promises[i].state = "fulfilled"
         /\ Awaited(i).state = "rejected"
         /\ AlreadyErr("to", Awaited(i).value))
            => promises[i].value = Awaited(i).value

\* The plain-object to has wrapped an Err in a new Err.
C10_DoubleWrapped ==
    \E i \in ToCalls :
        /\ promises[i].fn = "toPlain"
        /\ promises[i].state = "fulfilled"
        /\ Awaited(i).state = "rejected"
        /\ AlreadyErr("toPlain", Awaited(i).value)
        /\ promises[i].value # Awaited(i).value
        /\ IsErrOf("toPlain", promises[i].value, Awaited(i).value)

(***************************************************************************)
(* Promise chains, seen from the handles' promises.                        *)
(***************************************************************************)
\* The handles of next, of either module.
NextCalls == {i \in DOMAIN promises : promises[i].fn \in {"next", "nextPlain"}}

\* The async functions of the class based module.
ClassBased(fn) == fn \in {"to", "next", "toUnwrap", "toUnwrapOr", "toExpectOk"}

\* r is an Ok, an Err, of the module of fn; the payload of an Err.
OkIn(fn, r) ==
    /\ IsRef(r)
    /\ IF ClassBased(fn) THEN Deref(heap, r).cls = "OkImpl"
       ELSE Deref(heap, r).cls = "Object" /\ Deref(heap, r).ok = Bool(TRUE)

ErrIn(fn, r) ==
    /\ IsRef(r)
    /\ IF ClassBased(fn) THEN Deref(heap, r).cls = "ErrImpl"
       ELSE Deref(heap, r).cls = "Object" /\ Deref(heap, r).ok = Bool(FALSE)

PayloadIn(fn, r) ==
    IF ClassBased(fn) THEN Deref(heap, r).error ELSE Deref(heap, r).value

\* v is a generic Error with the message m.
GenericError(v, m) ==
    /\ IsRef(v)
    /\ Deref(heap, v).cls = "Error"
    /\ Deref(heap, v).message = m

RECURSIVE Before(_)
Before(j) ==
    IF promises[j].awaits = 0 THEN {}
    ELSE {promises[j].awaits} \cup Before(promises[j].awaits)

\* C12: in a chain p.then(next(f1))...then(next(fn)), once p or a step
\* has resolved to an Err, no later step's nextFn is ever invoked and
\* every later promise of the chain, the last one included, resolves to
\* that very Err: the original Err(e) of p, or the Err step i produced.
C12_ChainStopsAtErr ==
    \A j \in NextCalls : \A i \in Before(j) :
        (promises[i].state = "fulfilled" /\ ErrIn(promises[j].fn, promises[i].value))
            => /\ promises[j].task.calls = <<>>
               /\ promises[j].state # "rejected"
               /\ promises[j].state = "fulfilled" =>
                    promises[j].value = promises[i].value

\* A chain of two steps after an Err root has resolved to that Err.
C12_WitnessRootErr ==
    \E j \in NextCalls :
        /\ promises[j].state = "fulfilled"
        /\ promises[j].awaits \in NextCalls
        /\ Awaited(promises[j].awaits).fn = "caller"
        /\ ErrIn(promises[j].fn, Awaited(promises[j].awaits).value)
        /\ promises[j].value = Awaited(promises[j].awaits).value
        /\ PayloadIn(promises[j].fn, promises[j].value) = Str("x")

\* A chain whose first step returned an Err has resolved to it, its second
\* step never invoked.
C12_Witness ==
    \E j \in NextCalls :
        /\ promises[j].state = "fulfilled"
        /\ promises[j].awaits \in NextCalls
        /\ Awaited(j).task.calls # <<>>
        /\ ErrIn(promises[j].fn, Awaited(j).value)
        /\ promises[j].value = Awaited(j).value
        /\ promises[j].task.calls = <<>>

\* The nextFn of handle i has been invoked and its result is not yet taken
\* up by the handle.
InProgress(i) == promises[i].task.pc = "await"

Finished(fns) ==
    {i \in DOMAIN promises :
        promises[i].fn \in fns /\ promises[i].task.pc = "done"}

\* pr resolved to an Ok of the module of fn.
ResolvedOk(fn, pr) == pr.state = "fulfilled" /\ OkIn(fn, pr.value)

\* pr failed: it resolved to an Err, or rejected with an Err or a raw value.
Failed(fn, pr) ==
    \/ pr.state = "fulfilled" /\ ErrIn(fn, pr.value)
    \/ pr.state = "rejected"

\* The original error e of a failed pr.
OriginalError(fn, pr) ==
    IF ErrIn(fn, pr.value) THEN PayloadIn(fn, pr.value) ELSE pr.value

\* The rejection r of the call behind a function fn is a Result error
\* whose payload is e and not an Err around an Err, and whose message is
\* that of e when e is an Error.
RejectsWith(fn, r, e) ==
    /\ ErrIn(fn, r)
    /\ PayloadIn(fn, r) = e
    /\ ~ErrIn(fn, e)
    /\ InstanceOf(heap, e, "Error") =>
            Deref(heap, r).message = Deref(heap, e).message

\* C14: toUnwrap(p), of either module, resolves to v when p resolves to
\* Ok(v); when p resolves to Err(e), rejects with an Err(e) or rejects with
\* a raw e, it rejects with a Result error whose payload is e, never an
\* Err around an Err, its message that of e when e is an Error.
C14_ToUnwrap ==
    \A i \in Finished({"toUnwrap", "toUnwrapPlain"}) :
        LET fn == promises[i].fn
            pr == Awaited(i)
        IN  /\ ResolvedOk(fn, pr) =>
                /\ promises[i].state = "fulfilled"
                /\ promises[i].value = Deref(heap, pr.value).value
            /\ Failed(fn, pr) =>
                /\ promises[i].state = "rejected"
                /\ RejectsWith(fn, promises[i].value, OriginalError(fn, pr))

\* The same, of toUnwrap of the class based module alone.
C14_ClassBasedToUnwrap ==
    \A i \in Finished({"toUnwrap"}) :
        LET pr == Awaited(i)
        IN  /\ ResolvedOk("toUnwrap", pr) =>
                /\ promises[i].state = "fulfilled"
                /\ promises[i].value = Deref(heap, pr.value).value
            /\ Failed("toUnwrap", pr) =>
                /\ promises[i].state = "rejected"
                /\ RejectsWith("toUnwrap", promises[i].value,
                               OriginalError("toUnwrap", pr))

\* toUnwrap of the plain-object module has resolved to the Ok it was given,
\* not to its value.
C14_PlainKeepsOk ==
    \E i \in Finished({"toUnwrapPlain"}) :
        /\ ResolvedOk("toUnwrapPlain", Awaited(i))
        /\ promises[i].state = "fulfilled"
        /\ promises[i].value = Awaited(i).value

\* toUnwrap of the plain-object module has resolved, to the Err it was
\* given, where it was to reject.
C14_PlainResolvesErr ==
    \E i \in Finished({"toUnwrapPlain"}) :
        /\ Awaited(i).state = "fulfilled"
        /\ ErrIn("toUnwrapPlain", Awaited(i).value)
        /\ promises[i].state = "fulfilled"
        /\ promises[i].value = Awaited(i).value

\* C15, as stated: toUnwrapOr(p, d) never rejects; it resolves to d when p
\* rejects and when p resolves to an Err, and when p resolves with any
\* other v it resolves to v, that very value.
C15_ToUnwrapOrGivesResolved ==
    \A i \in Finished({"toUnwrapOr"}) :
        LET pr == Awaited(i)
            d == promises[i].task.arg
        IN  /\ promises[i].state = "fulfilled"
            /\ pr.state = "rejected" => promises[i].value = d
            /\ pr.state = "fulfilled" =>
                IF ErrIn("toUnwrapOr", pr.value)
                THEN promises[i].value = d
                ELSE promises[i].value = pr.value

\* C15, amended: toUnwrapOr(p, d) never rejects; it resolves to d when p
\* rejects and when p resolves to an Err, and to v when p resolves to
\* Ok(v).
C15_ToUnwrapOr ==
    \A i \in Finished({"toUnwrapOr"}) :
        LET pr == Awaited(i)
            d == promises[i].task.arg
        IN  /\ promises[i].state = "fulfilled"
            /\ pr.state = "rejected" => promises[i].value = d
            /\ pr.state = "fulfilled" =>
                IF ErrIn("toUnwrapOr", pr.value)
                THEN promises[i].value = d
                ELSE /\ OkIn("toUnwrapOr", pr.value)
                     /\ promises[i].value = Deref(heap, pr.value).value

\* toUnwrapOr has resolved to the value of the Ok its promise resolved to,
\* the default being another value.
C15_Witness ==
    \E i \in Finished({"toUnwrapOr"}) :
        /\ ResolvedOk("toUnwrapOr", Awaited(i))
        /\ promises[i].value = Deref(heap, Awaited(i).value).value
        /\ promises[i].value # promises[i].task.arg

\* toUnwrapOr has resolved to its default after a rejection.
C15_WitnessRejected ==
    \E i \in Finished({"toUnwrapOr"}) :
        /\ Awaited(i).state = "rejected"
        /\ promises[i].state = "fulfilled"
        /\ promises[i].value = Num(7)

\* r is an error whose message is m.
ErrorWithMessage(r, m) ==
    /\ InstanceOf(heap, r, "Error")
    /\ Deref(heap, r).message = m

\* C16: toExpect / toExpectOk(p, message) resolves to v when p resolves to
\* Ok(v); when p resolves to Err(e), rejects with an Err(e) or rejects with
\* a raw e, it rejects with an error whose message is the caller's, and in
\* the class based module that error's payload is e, not an Err around it.
C16_ToExpect ==
    \A i \in Finished({"toExpectOk", "toExpectPlain"}) :
        LET fn == promises[i].fn
            pr == Awaited(i)
        IN  /\ ResolvedOk(fn, pr) =>
                /\ promises[i].state = "fulfilled"
                /\ promises[i].value = Deref(heap, pr.value).value
            /\ Failed(fn, pr) =>
                /\ promises[i].state = "rejected"
                /\ ErrorWithMessage(promises[i].value, promises[i].task.arg)
                /\ fn = "toExpectOk" =>
                    /\ PayloadIn(fn, promises[i].value) = OriginalError(fn, pr)
                    /\ ~ErrIn(fn, PayloadIn(fn, promises[i].value))

\* The same, of toExpectOk of the class based module alone.
C16_ClassBasedToExpectOk ==
    \A i \in Finished({"toExpectOk"}) :
        LET pr == Awaited(i)
        IN  /\ ResolvedOk("toExpectOk", pr) =>
                /\ promises[i].state = "fulfilled"
                /\ promises[i].value = Deref(heap, pr.value).value
            /\ Failed("toExpectOk", pr) =>
                /\ promises[i].state = "rejected"
                /\ ErrorWithMessage(promises[i].value, promises[i].task.arg)
                /\ PayloadIn("toExpectOk", promises[i].value)
                        = OriginalError("toExpectOk", pr)
                /\ ~ErrIn("toExpectOk", PayloadIn("toExpectOk", promises[i].value))

\* toExpect of the plain-object module has resolved to the Ok it was given,
\* not to its value.
C16_PlainKeepsOk ==
    \E i \in Finished({"toExpectPlain"}) :
        /\ ResolvedOk("toExpectPlain", Awaited(i))
        /\ promises[i].state = "fulfilled"
        /\ promises[i].value = Awaited(i).value

\* toExpect of the plain-object module has resolved, to the Err it was
\* given, where it was to reject with the caller's message.
C16_PlainResolvesErr ==
    \E i \in Finished({"toExpectPlain"}) :
        /\ Awaited(i).state = "fulfilled"
        /\ ErrIn("toExpectPlain", Awaited(i).value)
        /\ promises[i].state = "fulfilled"
        /\ promises[i].value = Awaited(i).value

\* toExpectOk has rejected after its promise resolved to an Err.
C16_ClassBasedRejected ==
    \E i \in Finished({"toExpectOk"}) :
        /\ Awaited(i).state = "fulfilled"
        /\ ErrIn("toExpectOk", Awaited(i).value)
        /\ promises[i].state = "rejected"

\* C17: toCapture(p) never rejects: when p resolves to a Result it resolves
\* to that Result itself; when p rejects with a ResultError it resolves to
\* that same object; when p rejects with any other value t it resolves to
\* a new Err whose payload is t.
C17_ToCapture ==
    \A i \in Finished({"toCapture"}) :
        LET pr == Awaited(i)
            r == promises[i].value
        IN  /\ promises[i].state = "fulfilled"
            /\ pr.state = "fulfilled" => r = pr.value
            /\ pr.state = "rejected" =>
                IF InstanceOf(heap, pr.value, "ResultError")
                THEN r = pr.value
                ELSE /\ r # pr.value
                     /\ InstanceOf(heap, r, "ResultError")
                     /\ Deref(heap, r).ok = Bool(FALSE)
                     /\ Deref(heap, r).value = pr.value

\* toCapture has resolved to the ResultError its promise rejected with.
C17_Witness ==
    \E i \in Finished({"toCapture"}) :
        /\ Awaited(i).state = "rejected"
        /\ InstanceOf(heap, Awaited(i).value, "ResultError")
        /\ promises[i].state = "fulfilled"
        /\ promises[i].value = Awaited(i).value

\* toCapture has wrapped another rejection in a new Err.
C17_WitnessWrapped ==
    \E i \in Finished({"toCapture"}) :
        /\ Awaited(i).state = "rejected"
        /\ ~InstanceOf(heap, Awaited(i).value, "ResultError")
        /\ promises[i].state = "fulfilled"
        /\ Deref(heap, promises[i].value).value = Awaited(i).value

(***************************************************************************)
(* expect, expectOk                                                        *)
(***************************************************************************)
\* C18: expect(result, message) returns v for Ok(v); for an Err it raises
\* with the caller's message and not a derived one: a string message is
\* raised as a new Error with that message (in the class based module an
\* ErrImpl, which is an Error), a message that is not a string is raised as
\* it is.
C18_Expect ==
    last.op \in {"expectOk", "expect"} =>
        LET fn == IF last.op = "expectOk" THEN "toExpectOk" ELSE "toExpectPlain"
        IN  IF OkIn(fn, last.arg)
            THEN /\ last.kind = "return"
                 /\ last.val = Deref(heap, last.arg).value
            ELSE /\ last.kind = "throw"
                 /\ IF last.arg2.t = "string"
                    THEN /\ ErrorWithMessage(last.val, last.arg2)
                         /\ last.val = Ref(Len(heap))
                         /\ last.op = "expect" => Deref(heap, last.val).cls = "Error"
                    ELSE last.val = last.arg2

\* expectOk has raised with the caller's message on an Err whose payload
\* has a message of its own.
C18_Witness ==
    /\ last.op = "expectOk"
    /\ last.kind = "throw"
    /\ InstanceOf(heap, Deref(heap, last.arg).error, "Error")
    /\ Deref(heap, last.val).message = Str("another error")

\* expect has raised the caller's error object itself.
C18_WitnessRaisedDirectly ==
    /\ last.op = "expect"
    /\ last.kind = "throw"
    /\ IsRef(last.arg2)
    /\ last.val = last.arg2

(***************************************************************************)
(* The message of what unwrap raises                                       *)
(***************************************************************************)
\* The string form of a payload that is not an Error.
StringForm(v) ==
    CASE v.t = "undefined" -> "undefined"
      [] v.t = "string" -> v.s
      [] v.t = "number" -> NumStr(v.n)
      [] OTHER -> "[object Object]"

\* C19: what unwrap(Err(e)) raises has a message derived from e, e's own
\* message when e is an Error and the string form of e otherwise, and
\* keeps e as its payload.
C19_UnwrapMessage ==
    (last.op = "unwrap" /\ Deref(heap, last.arg).cls = "ErrImpl") =>
        /\ last.kind = "throw"
        /\ InstanceOf(heap, last.val, "Error")
        /\ LET e == Deref(heap, last.arg).error
           IN  /\ Deref(heap, last.val).error = e
               /\ Deref(heap, last.val).message =
                    IF InstanceOf(heap, e, "Error")
                    THEN Deref(heap, e).message
                    ELSE Str(StringForm(e))

\* unwrap(Err(new Error('boom'))) has raised with the message 'boom'.
C19_Witness ==
    /\ last.op = "unwrap"
    /\ last.kind = "throw"
    /\ IsRef(Deref(heap, last.arg).error)
    /\ Deref(heap, Deref(heap, last.arg).error).cls = "Error"
    /\ Deref(heap, last.val).message = Str("boom")

\* unwrap of an Err of a string has raised with that string as message.
C19_WitnessString ==
    /\ last.op = "unwrap"
    /\ last.kind = "throw"
    /\ Deref(heap, last.arg).error = Str("x")
    /\ Deref(heap, last.val).message = Str("x")

(***************************************************************************)
(* flatten                                                                 *)
(***************************************************************************)
\* C20: flatten takes off exactly one level: flatten of an Ok returns the
\* very value the Ok holds, which for Ok(Ok(Ok(v))) is the Ok(Ok(v)) inside
\* it, untouched; flatten of an Err returns the payload stored in the Err.
C20_FlattenOneLevel ==
    last.op = "flatten" =>
        /\ last.kind = "return"
        /\ isOk(heap, last.arg) => last.val = Deref(heap, last.arg).value
        /\ isErr(heap, last.arg) => last.val = Deref(heap, last.arg).error
        /\ (isOk(heap, last.arg) /\ isOk(heap, Deref(heap, last.arg).value)) =>
                /\ isOk(heap, last.val)
                /\ last.val # Deref(heap, last.val).value

\* flatten(Ok(Ok(Ok(v)))) has returned Ok(Ok(v)).
C20_Witness ==
    /\ last.op = "flatten"
    /\ isOk(heap, last.arg)
    /\ isOk(heap, last.val)
    /\ last.val = Deref(heap, last.arg).value
    /\ isOk(heap, Deref(heap, last.val).value)
    /\ ~IsRef(Deref(heap, Deref(heap, last.val).value).value)

\* flatten of an Err holding a Result has returned that Result.
C20_WitnessErr ==
    /\ last.op = "flatten"
    /\ isErr(heap, last.arg)
    /\ isOk(heap, last.val)
    /\ last.val = Deref(heap, last.arg).error

(***************************************************************************)
(* Options                                                                 *)
(***************************************************************************)
Options(h) == {o \in Refs(h) : Deref(h, o).cls \in {"SomeImpl", "NoneImpl"}}

\* C21: Some(v) is a Some and not a None for every v, undefined included;
\* None() is a None and not a Some, and every call to None() returns the
\* one shared object; so exactly one of isSome and isNone holds for every
\* Option, which is also what the two predicates answer when called.
C21_OptionPredicates ==
    /\ \A o \in Options(heap) : isSome(heap, o) # isNone(heap, o)
    /\ last.op = "Some" =>
            /\ isSome(heap, last.val) /\ ~isNone(heap, last.val)
            /\ Deref(heap, last.val).value = last.arg
    /\ last.op = "None" =>
            /\ last.val = none
            /\ isNone(heap, last.val) /\ ~isSome(heap, last.val)
    /\ \A o \in Options(heap) : isNone(heap, o) => o = none
    /\ last.op = "isSome" =>
            last.val = Bool(Deref(heap, last.arg).cls = "SomeImpl")
    /\ last.op = "isNone" =>
            last.val = Bool(Deref(heap, last.arg).cls = "NoneImpl")

\* isSome has answered true for Some(undefined).
C21_Witness ==
    /\ last.op = "isSome"
    /\ Deref(heap, last.arg).cls = "SomeImpl"
    /\ Deref(heap, last.arg).value = Undefined
    /\ last.val = Bool(TRUE)

\* None() has returned the shared object after Options were made.
C21_WitnessShared ==
    /\ last.op = "None"
    /\ last.val = none
    /\ Len(heap) > 2

\* C22: unwrap of Some(v) returns v; unwrap of None() returns nothing and
\* raises an Err result whose message is 'Tried to unwrap a None option';
\* unwrapOr returns the default for None() without raising and v for Some(v).
C22_OptionUnwrap ==
    /\ (last.op = "unwrapOption" /\ isSome(heap, last.arg)) =>
            /\ last.kind = "return"
            /\ last.val = Deref(heap, last.arg).value
    /\ (last.op = "unwrapOption" /\ isNone(heap, last.arg)) =>
            /\ last.kind = "throw"
            /\ isErr(heap, last.val)
            /\ ~isOk(heap, last.val)
            /\ Deref(heap, last.val).message = Str("Tried to unwrap a None option")
    /\ (last.op = "unwrapOrOption" /\ isSome(heap, last.arg)) =>
            /\ last.kind = "return"
            /\ last.val = Deref(heap, last.arg).value
    /\ (last.op = "unwrapOrOption" /\ isNone(heap, last.arg)) =>
            /\ last.kind = "return"
            /\ last.val = last.arg2

\* unwrap(None()) has raised an Err.
C22_Witness ==
    /\ last.op = "unwrapOption"
    /\ last.arg = none
    /\ last.kind = "throw"
    /\ isErr(heap, last.val)

\* unwrapOr(None(), 7) has returned 7.
C22_WitnessDefault ==
    /\ last.op = "unwrapOrOption"
    /\ last.arg = none
    /\ last.val = Num(7)

\* unwrap(Some(undefined)) has returned undefined.
C22_WitnessSome ==
    /\ last.op = "unwrapOption"
    /\ isSome(heap, last.arg)
    /\ last.kind = "return"
    /\ last.val = Undefined

(***************************************************************************)
(* One discriminant                                                        *)
(***************************************************************************)
ExactlyOne(h, v) == isOk(h, v) # isErr(h, v)

\* C23: every value returned by Ok, Err, mapInto, andThen, MapHelper.get,
\* capture, and every value a promise of to or of a next handle resolved
\* to, is exactly one of Ok and Err, whatever calls came before; so is
\* every Result there is.
C23_OneDiscriminant ==
    /\ (/\ last.op \in {"Ok", "Err", "mapInto", "andThen", "get", "capture"}
        /\ last.kind = "return") => ExactlyOne(heap, last.val)
    /\ \A i \in DOMAIN promises :
            (promises[i].fn \in {"to", "next"} /\ promises[i].state = "fulfilled")
                => ExactlyOne(heap, promises[i].value)
    /\ \A r \in Results(heap) : ExactlyOne(heap, r)

\* A next handle resolved to a Result, the program awaited it and mapInto
\* has returned for it.
C23_Witness ==
    /\ last.op = "mapInto"
    /\ last.kind = "return"
    /\ \E i \in DOMAIN promises :
            /\ promises[i].fn = "next"
            /\ promises[i].state = "fulfilled"
            /\ promises[i].value = last.arg

\* to resolved to an Err for a rejected promise, and the program awaited it.
C23_WitnessTo ==
    /\ last.op = "await"
    /\ isErr(heap, last.val)
    /\ promises[last.arg.n].fn = "to"
    /\ Awaited(last.arg.n).state = "rejected"

\* get has returned the Result a builder chain ended with.
C23_WitnessGet ==
    /\ last.op = "get"
    /\ last.kind = "return"
    /\ Len(steps) > 1

(***************************************************************************)
(* config.verbose                                                          *)
(***************************************************************************)
\* The promises of to and of the handles of next that read config.verbose.
PlainToCalls == {i \in DOMAIN promises : promises[i].fn = "toPlain"}
PlainNextCalls == {i \in DOMAIN promises : promises[i].fn = "nextPlain"}

\* Two Results of the plain-object module with the same content.
SameResult(r1, r2) ==
    /\ Deref(heap, r1).ok = Deref(heap, r2).ok
    /\ Deref(heap, r1).value = Deref(heap, r2).value

\* C24: what to(p) and a next handle resolve to is decided by their inputs
\* alone, whatever config.verbose was when they ran and however it changed
\* while they were suspended: to gives Ok of the value or Err of the reason,
\* two calls of to on one promise give the same; a handle gives the Err it
\* received, the Result of nextFn, or for an Err of nextFn and a message
\* the Err of a new Error with that message.
C24_VerboseDoesNotInterfere ==
    /\ \A i \in PlainToCalls : Settled(promises[i]) =>
            /\ promises[i].state = "fulfilled"
            /\ IsRef(promises[i].value)
            /\ Deref(heap, promises[i].value).cls = "Object"
            /\ Deref(heap, promises[i].value).ok =
                    Bool(Awaited(i).state = "fulfilled")
            /\ Deref(heap, promises[i].value).value = Awaited(i).value
    /\ \A i, j \in PlainToCalls :
            (/\ promises[i].awaits = promises[j].awaits
             /\ Settled(promises[i]) /\ Settled(promises[j])) =>
                /\ promises[i].state = promises[j].state
                /\ SameResult(promises[i].value, promises[j].value)
    /\ \A i \in PlainNextCalls : promises[i].task.pc = "done" =>
            LET root == Awaited(i)
                t == promises[i].task
            IN  IF root.state = "rejected"
                THEN /\ promises[i].state = "rejected"
                     /\ promises[i].value = root.value
                ELSE /\ promises[i].state = "fulfilled"
                     /\ IF ~Truthy(Deref(heap, root.value).ok)
                        THEN promises[i].value = root.value
                        ELSE IF /\ ~Truthy(Deref(heap, t.inner.value).ok)
                                /\ Truthy(t.arg)
                        THEN /\ ErrIn("nextPlain", promises[i].value)
                             /\ GenericError(
                                    Deref(heap, promises[i].value).value, t.arg)
                        ELSE promises[i].value = t.inner.value

\* to ran twice on one rejected promise, once with config.verbose set and
\* once without: one error was logged, and the two Results are alike.
C24_Witness ==
    \E i, j \in PlainToCalls :
        /\ i # j
        /\ promises[i].awaits = promises[j].awaits
        /\ Awaited(i).state = "rejected"
        /\ Settled(promises[i]) /\ Settled(promises[j])
        /\ Len(console) = 1

\* A handle with an asynchronous nextFn replaced the Err it awaited while
\* config.verbose was set, and logged it.
C24_WitnessNextLogged ==
    \E i \in PlainNextCalls :
        /\ promises[i].task.pc = "done"
        /\ promises[i].task.nextFn \in AsyncFns
        /\ Truthy(promises[i].task.arg)
        /\ promises[i].value # promises[i].task.inner.value
        /\ Len(console) = 1

\* A handle replaced the Err of nextFn while config.verbose was not set.
C24_WitnessNextSilent ==
    \E i \in PlainNextCalls :
        /\ promises[i].task.pc = "done"
        /\ Truthy(promises[i].task.arg)
        /\ promises[i].state = "fulfilled"
        /\ IsRef(promises[i].task.inner.value)
        /\ promises[i].value # promises[i].task.inner.value
        /\ console = <<>>

(***************************************************************************)
(* The unwrap family leaves its input as it was                            *)
(***************************************************************************)
UnwrapFamily == {"unwrap", "unwrapOr", "expectOk", "expect"}

\* C25: a call of unwrap, unwrapOr, expectOk or expect, whether it returns
\* or raises, leaves the Result it was given, and every other object, with
\* the discriminant, payload and message it had; what expectOk raises is a
\* new Err.
C25_InputUntouched ==
    [][ last'.op \in UnwrapFamily =>
            /\ Len(heap') >= Len(heap)
            /\ \A k \in DOMAIN heap : heap'[k] = heap[k]
            /\ (last'.op = "expectOk" /\ last'.kind = "throw"
                    /\ <<heap', last'>> # <<heap, last>>) =>
                    last'.val.n = Len(heap) + 1 ]_vars

\* expectOk has raised a new Err with the caller's message for an Err that
\* still has its own.
C25_Witness ==
    /\ last.op = "expectOk"
    /\ last.kind = "throw"
    /\ last.val # last.arg
    /\ isErr(heap, last.arg)
    /\ Deref(heap, last.arg).message = Str("x")
    /\ Deref(heap, last.val).message = Str("another error")

\* unwrap has raised the Err it was given.
C25_WitnessUnwrap ==
    /\ last.op = "unwrap"
    /\ last.kind = "throw"
    /\ last.val = last.arg
    /\ Deref(heap, last.arg).message = Str("x")

(***************************************************************************)
(* mapInto, andThen and the builder are one operation                      *)
(***************************************************************************)
\* map(result).into(fn).get(), as one expression
Builder(h, result, fn) ==
    LET m == map(h, result)
        i == into(m.heap, m.val, fn)
    IN  IF i.kind = "throw" THEN i
        ELSE [get(i.heap, i.val) EXCEPT !.calls = i.calls]

\* mapInto(...mapInto(mapInto(result, fns[1]), fns[2])..., fns[n])
RECURSIVE Nested(_, _, _)
Nested(h, result, fns) ==
    IF fns = <<>> THEN Return(h, result)
    ELSE LET c == mapInto(h, result, Head(fns))
         IN  IF c.kind = "throw" THEN c
             ELSE LET d == Nested(c.heap, c.val, Tail(fns))
                  IN  [d EXCEPT !.calls = c.calls \o d.calls]

\* map(result).into(fns[1]).into(fns[2])...
RECURSIVE Chained(_, _, _)
Chained(h, helper, fns) ==
    IF fns = <<>> THEN Return(h, helper)
    ELSE LET c == into(h, helper, Head(fns))
         IN  IF c.kind = "throw" THEN c
             ELSE LET d == Chained(c.heap, c.val, Tail(fns))
                  IN  [d EXCEPT !.calls = c.calls \o d.calls]

\* map(result).into(fns[1])...into(fns[n]).get()
Chain(h, result, fns) ==
    LET m == map(h, result)
        c == Chained(m.heap, m.val, fns)
    IN  IF c.kind = "throw" THEN c
        ELSE [get(c.heap, c.val) EXCEPT !.calls = c.calls]

\* Two completions of calls made on the heap h0 are the same: both return
\* or both raise, the same object of h0 or the same primitive or objects
\* made alike, after the same calls of the function.
SameCompletion(h0, c, d) ==
    /\ c.kind = d.kind
    /\ c.calls = d.calls
    /\ IF IsRef(c.val) /\ c.val.n > Len(h0)
       THEN /\ IsRef(d.val) /\ d.val.n > Len(h0)
            /\ Deref(c.heap, c.val) = Deref(d.heap, d.val)
       ELSE c.val = d.val

\* The completion of the call a step has just made.
Completed ==
    [kind |-> last'.kind, val |-> last'.val, heap |-> heap', calls |-> invoked']

\* The sequences of one and two step functions that fit the Result r.
FnSeqs(h, r) ==
    {<<f>> : f \in MappersFor(h, r)}
        \cup {<<f, g>> : f \in MappersFor(h, r), g \in {"okSame", "errBad", "throwRaw"}}

\* C26: for every Result r and step function f, mapInto(r, f), andThen(r, f)
\* and map(r).into(f).get() complete the same way, with the same result,
\* after the same calls of f with the same argument; and a builder chain of
\* n into steps completes as n nested calls of mapInto do.
C26_OneOperation ==
    [][ last'.op \in {"mapInto", "andThen"} =>
            LET r == last'.arg
                f == last'.fn
            IN  /\ SameCompletion(heap, Completed, mapInto(heap, r, f))
                /\ SameCompletion(heap, Completed, andThen(heap, r, f))
                /\ SameCompletion(heap, Completed, Builder(heap, r, f))
                /\ \A fns \in FnSeqs(heap, r) :
                        SameCompletion(heap, Nested(heap, r, fns),
                                       Chain(heap, r, fns)) ]_vars

\* andThen has called the function once, with the value of the Ok, and
\* returned the new Ok it made.
C26_Witness ==
    /\ last.op = "andThen"
    /\ last.fn = "okInc"
    /\ last.kind = "return"
    /\ invoked = <<(<<Num(1)>>)>>
    /\ Deref(heap, last.val) = OkImpl(Num(2))

\* mapInto has returned the Err it was given, without a call.
C26_WitnessErr ==
    /\ last.op = "mapInto"
    /\ last.val = last.arg
    /\ isErr(heap, last.arg)
    /\ invoked = <<>>

(***************************************************************************)
(* onError                                                                 *)
(***************************************************************************)
\* C27: unwrapOr(Err(e), d, onError) returns d and calls onError exactly
\* once, with e; toUnwrapOr(Promise.reject(e), d, onError) resolves to d
\* and calls onError exactly once, with e.
C27_OnErrorCalled ==
    /\ (last.op = "unwrapOr" /\ last.fn = "onError" /\ isErr(heap, last.arg)) =>
            /\ last.kind = "return"
            /\ last.val = last.arg2
            /\ invoked = <<(<<Deref(heap, last.arg).error>>)>>
    /\ \A i \in Finished({"toUnwrapOr"}) :
            (promises[i].task.nextFn = "onError" /\ Awaited(i).state = "rejected") =>
                /\ promises[i].state = "fulfilled"
                /\ promises[i].value = promises[i].task.arg
                /\ promises[i].task.calls = <<(<<Awaited(i).value>>)>>

\* What the code does: the default comes back, and onError is not called.
C27_OnErrorIgnored ==
    /\ (last.op = "unwrapOr" /\ last.fn = "onError" /\ isErr(heap, last.arg)) =>
            /\ last.kind = "return"
            /\ last.val = last.arg2
            /\ invoked = <<>>
    /\ \A i \in Finished({"toUnwrapOr"}) :
            (promises[i].task.nextFn = "onError" /\ Awaited(i).state = "rejected") =>
                /\ promises[i].state = "fulfilled"
                /\ promises[i].value = promises[i].task.arg
                /\ promises[i].task.calls = <<>>

\* unwrapOr(Err(e), 7, onError) has returned 7 and onError was not called.
C27_UnwrapOrSilent ==
    /\ last.op = "unwrapOr"
    /\ last.fn = "onError"
    /\ isErr(heap, last.arg)
    /\ last.val = Num(7)
    /\ invoked = <<>>

\* toUnwrapOr(Promise.reject(e), 7, onError) has resolved to 7 and onError
\* was not called.
C27_ToUnwrapOrSilent ==
    \E i \in Finished({"toUnwrapOr"}) :
        /\ promises[i].task.nextFn = "onError"
        /\ Awaited(i).state = "rejected"
        /\ promises[i].value = Num(7)
        /\ promises[i].task.calls = <<>>

(***************************************************************************)
(* The helper into returns                                                 *)
(***************************************************************************)
\* C28: into returns a new MapHelper, distinct from the receiver, and the
\* receiver still holds the result it held before the call.
C28_IntoReturnsNewHelper ==
    (last.op = "into" /\ last.kind = "return") =>
        /\ last.val # last.arg
        /\ InstanceOf(heap, last.val, "MapHelper")
        /\ steps[Len(steps)].after = steps[Len(steps)].before

\* What the code does: into returns the receiver, which now holds the
\* result of mapInto.
C28_IntoReturnsReceiver ==
    (last.op = "into" /\ last.kind = "return") =>
        /\ last.val = last.arg
        /\ steps[Len(steps)].helper = last.arg.n
        /\ steps[Len(steps)].called =>
                steps[Len(steps)].after # steps[Len(steps)].before

\* into has returned its receiver, which holds another result than before.
C28_ReceiverChanged ==
    /\ last.op = "into"
    /\ last.kind = "return"
    /\ last.val = last.arg
    /\ Deref(heap, last.arg).result # steps[Len(steps)].before
    /\ Deref(heap, steps[Len(steps)].before) = OkImpl(Num(1))
    /\ Deref(heap, Deref(heap, last.arg).result) = OkImpl(Num(2))


C29_WitnessAsync ==
    \E i \in DOMAIN promises :
        /\ promises[i].fn = "next"
        /\ promises[i].task.pc = "done"
        /\ promises[i].task.nextFn = "asyncReject"
        /\ Truthy(promises[i].task.arg)
        /\ promises[i].state = "rejected"
        /\ promises[i].value = Raised

\* andThen was given an Err and a function that raises, and returned the Err.
C29_WitnessErr ==
    /\ last.op = "andThen"
    /\ last.fn = "throwRaw"
    /\ isErr(heap, last.arg)
    /\ last.kind = "return"
    /\ last.val = last.arg

\* The next handles that called nextFn and got an Err from it.
NextGotErr ==
    {i \in NextCalls :
        /\ promises[i].task.pc = "done"
        /\ promises[i].task.calls # <<>>
        /\ promises[i].task.inner.state = "fulfilled"
        /\ ErrIn(promises[i].fn, promises[i].task.inner.value)}

\* C30: the handle of next(nextFn, message) replaces the Err that nextFn
\* returned only when message is a non-empty string; with no message or the
\* empty string it resolves to that very Err, whose payload is the one nextFn
\* gave it.
C30_MessageReplacesErr ==
    \A i \in NextGotErr :
        LET t == promises[i].task
        IN  /\ promises[i].state = "fulfilled"
            /\ promises[i].value # t.inner.value =>
                    t.arg.t = "string" /\ t.arg.s # ""
            /\ t.arg \in {Undefined, Str("")} =>
                /\ promises[i].value = t.inner.value
                /\ PayloadIn(promises[i].fn, promises[i].value) = Bad

\* A class based handle was given the empty string and resolved to the Err of
\* its nextFn.
C30_Witness ==
    \E i \in NextGotErr :
        /\ promises[i].fn = "next"
        /\ promises[i].task.arg = Str("")
        /\ promises[i].value = promises[i].task.inner.value
        /\ Deref(heap, promises[i].value).error = Bad

\* A handle was given a non-empty message and resolved to another Err.
C30_WitnessReplaced ==
    \E i \in NextGotErr :
        /\ promises[i].task.arg = Str("custom error")
        /\ promises[i].value # promises[i].task.inner.value
        /\ ErrIn(promises[i].fn, promises[i].value)

\* A handle with no message resolved to the Err its asynchronous nextFn gave.
C30_WitnessOmitted ==
    \E i \in NextGotErr :
        /\ promises[i].task.arg = Undefined
        /\ promises[i].task.nextFn = "asyncErr"
        /\ promises[i].value = promises[i].task.inner.value

\* A handle of the plain-object module was given the empty string and
\* resolved to the Err of its nextFn.
C30_WitnessPlain ==
    \E i \in NextGotErr :
        /\ promises[i].fn = "nextPlain"
        /\ promises[i].task.arg = Str("")
        /\ promises[i].value = promises[i].task.inner.value
====
